---- MODULE Spec2Model ----
(***************************************************************************)
(* Gorilla time-series compression: bit stream, delta-of-delta timestamp   *)
(* codec, XOR value codec, multivariate block and series.                  *)
(*                                                                         *)
(* Representation.  A byte is an integer 0..255.  A 64-bit pattern (the    *)
(* Python int held in v_bits / xor) is a tuple of 64 bits, most            *)
(* significant first.  Timestamps, deltas and delta-of-deltas are integers *)
(* of the range -IntLimit .. IntLimit-1 stored in their full 64-bit (or    *)
(* 32/12/9/7-bit) fields; a number decoded from a field that lies outside  *)
(* that range is the token OutOfRange.                                     *)
(***************************************************************************)
EXTENDS Integers, Sequences, FiniteSets, TLC

VARIABLES
    tw,      \* TimestampEncoder._writer (BitWriter) of compress_timestamps
    tenc,    \* TimestampEncoder state
    tfed,    \* history: the timestamps passed to add_timestamp so far
    tlast,   \* history: outcome of the last add_timestamp call
    tphase,  \* "write" while compressing, "read" once to_bytes() was taken
    trd,     \* BitReader of decompress_timestamps
    tdec,    \* TimestampDecoder state
    tout,    \* the timestamps returned by read_timestamp so far
    vmode,   \* which encoder method is used: "standard" or "verification"
    vw,      \* ValueEncoder._writer (BitWriter)
    venc,    \* ValueEncoder state
    vfed,    \* history: the 64-bit patterns passed to the encoder so far
    vlast,   \* history: outcome of the last encoder call
    vphase,  \* "write" while encoding, "read" once to_bytes() was taken
    vrd,     \* BitReader of the decoder
    vdec,    \* ValueDecoder state
    vout,    \* the 64-bit patterns returned by read_value so far
    blk,     \* a MultiVariateBlock
    bpre,    \* history: the block as it was before the last call
    blast,   \* history: the last call on the block, whether it raised, add calls so far
    bfed,    \* history: the points of the add calls that returned normally
    bfailed, \* history: some add call raised inside the timestamp codec
    bdec,    \* the MultiVariateDecoder built on the sealed bytes: <<>> or <<d>>
    bout,    \* the points returned by read_point so far
    ser,     \* a MultiVariateSeries
    spre,    \* history: the series as it was before the last call
    slast,   \* history: the last call on the series and its outcome
    sres,    \* the list returned by the last call when it was a query
    sfed,    \* history: the timestamp of every insert call, in call order,
             \*          and whether its value map held every variable
    sacc,    \* history: the points whose insert returned normally, each with
             \*          the start_timestamp of the block that took it
    smade,   \* history: for every block created, the timestamp that created
             \*          it and the start_timestamp it got
    store,   \* MultiVariateStore._series: series key -> MultiVariateSeries
    stpre,   \* history: _series as it was before the last call on the store
    stlast,  \* history: the last call on the store and its outcome
    stres,   \* the list returned by the last call when it was a query
    bw,      \* a BitWriter used on its own
    bwpre,   \* history: the writer as it was before the last call
    bwlast,  \* history: the last call on the writer and its outcome
    bwlog,   \* history: the calls on the writer that returned normally
    brd,     \* a BitReader used on its own: <<>> or <<r>>
    brpre,   \* history: the reader as it was before the last call
    brlast   \* history: the last call on the reader and its outcome

tsvars == <<tw, tenc, tfed, tlast, tphase, trd, tdec, tout>>

valvars == <<vmode, vw, venc, vfed, vlast, vphase, vrd, vdec, vout>>

blkvars == <<blk, bpre, blast, bfed, bfailed, bdec, bout>>

servars == <<ser, spre, slast, sres, sfed, sacc, smade>>

stovars == <<store, stpre, stlast, stres>>

bitvars == <<bw, bwpre, bwlast, bwlog, brd, brpre, brlast>>

vars == <<tw, tenc, tfed, tlast, tphase, trd, tdec, tout,
          vmode, vw, venc, vfed, vlast, vphase, vrd, vdec, vout,
          blk, bpre, blast, bfed, bfailed, bdec, bout,
          ser, spre, slast, sres, sfed, sacc, smade,
          store, stpre, stlast, stres,
          bw, bwpre, bwlast, bwlog, brd, brpre, brlast>>

-----------------------------------------------------------------------------
(* Bounds *)

\* number of add_timestamp calls of one compress_timestamps run
MaxTs == 3

\* number of values encoded by one ValueEncoder
MaxVals == 3

\* number of add calls on one MultiVariateBlock
MaxAdds == 4

\* number of insert, query and flush calls on one MultiVariateSeries
MaxInserts == 3

MaxQueries == 1

MaxFlushes == 1
\* get_compression_stats calls on the series
MaxStats == 1

\* number of insert calls of a series that is only filled and then queried
MaxFill == 4

\* insert calls on the series with the variable "temp"
MaxTemp == 3

\* calls on one MultiVariateStore
MaxStoreCalls == 5

\* calls on a BitReader over given bytes
MaxReads == 3

\* calls on a BitWriter before to_bytes
MaxBitOps == 3

\* the widths 1..MaxSignedWidth are passed to write_signed with every value
\* of their range
MaxSignedWidth == 5

-----------------------------------------------------------------------------
(* Numbers *)

\* Python None (an unset Optional[int])
None == 0 - 2^29

\* modelled integers are -IntLimit .. IntLimit-1
IntLimit == 2^24

\* a decoded integer outside the modelled range
OutOfRange == 2^30

InModelRange(x) == (0 - IntLimit) <= x /\ x < IntLimit

\* Python int addition on the modelled range
Plus(a, b) ==
    IF a = OutOfRange \/ b = OutOfRange THEN OutOfRange
    ELSE IF InModelRange(a + b) THEN a + b ELSE OutOfRange

\* the low n bits of x >= 0, most significant first
IntBits(x, n) ==
    [i \in 1..n |-> IF n - i >= 30 THEN 0 ELSE (x \div (2^(n - i))) % 2]

\* the n-bit two's complement pattern of x, most significant first
TwosBits(x, n) ==
    IF x >= 0 THEN IntBits(x, n)
    ELSE [i \in 1..n |-> 1 - IntBits((0 - x) - 1, n)[i]]

RECURSIVE BitsValue(_)
\* the unsigned value of a bit tuple (fewer than 31 bits)
BitsValue(s) ==
    IF s = <<>> THEN 0 ELSE 2 * BitsValue(SubSeq(s, 1, Len(s) - 1)) + s[Len(s)]

AllEqual(s, b) == \A i \in 1..Len(s) : s[i] = b

\* the unsigned value of a bit tuple of any length
UnsignedValue(s) ==
    IF Len(s) <= 24 THEN BitsValue(s)
    ELSE IF AllEqual(SubSeq(s, 1, Len(s) - 24), 0)
         THEN BitsValue(SubSeq(s, Len(s) - 23, Len(s)))
         ELSE OutOfRange

\* the two's complement value of a bit tuple: val - (1 << bits) if the top
\* bit is set
SignedValue(s) ==
    IF Len(s) <= 24
    THEN IF s[1] = 1 THEN BitsValue(s) - 2^Len(s) ELSE BitsValue(s)
    ELSE IF AllEqual(SubSeq(s, 1, Len(s) - 24), s[1])
         THEN IF s[1] = 1 THEN BitsValue(SubSeq(s, Len(s) - 23, Len(s))) - IntLimit
              ELSE BitsValue(SubSeq(s, Len(s) - 23, Len(s)))
         ELSE OutOfRange

\* the bits of a byte string, most significant bit of each byte first
BytesToBits(bs) ==
    [i \in 1..(8 * Len(bs)) |-> (bs[((i - 1) \div 8) + 1] \div 2^(7 - ((i - 1) % 8))) % 2]

\* the complete bytes of a bit tuple
BitsToBytes(s) ==
    [k \in 1..(Len(s) \div 8) |->
        128 * s[8 * k - 7] + 64 * s[8 * k - 6] + 32 * s[8 * k - 5] + 16 * s[8 * k - 4]
        + 8 * s[8 * k - 3] + 4 * s[8 * k - 2] + 2 * s[8 * k - 1] + s[8 * k]]

\* struct.pack(">q", x): 8 bytes, big-endian two's complement
PackI64(x) == BitsToBytes(TwosBits(x, 64))

\* struct.unpack(">q", bytes)
UnpackI64(bs) == SignedValue(BytesToBits(bs))

\* struct.pack(">I", x & 0xFFFFFFFF): 4 bytes, big-endian
PackU32(x) == BitsToBytes(TwosBits(x, 32))

\* struct.unpack(">I", bytes)
UnpackU32(bs) == UnsignedValue(BytesToBits(bs))

-----------------------------------------------------------------------------
(* BitWriter *)

\* BitWriter.__init__
NewWriter == [buf |-> <<>>, cur |-> 0, nbits |-> 0]

bit_length(w) == Len(w.buf) * 8 + w.nbits

write_bit(w, bit) ==
    LET cur == w.cur * 2 + (bit % 2)
        nbits == w.nbits + 1
    IN  IF nbits = 8
        THEN [buf |-> Append(w.buf, cur % 256), cur |-> 0, nbits |-> 0]
        ELSE [buf |-> w.buf, cur |-> cur, nbits |-> nbits]

\* the loop of write_bits, "shift the bit into _cur, flush _cur at 8 bits",
\* run over the bits of s first to last: the pending bits followed by s are
\* cut into bytes and the incomplete rest stays in _cur
WriteBitSeq(w, s) ==
    LET all == IntBits(w.cur, w.nbits) \o s
        full == Len(all) \div 8
    IN  [buf |-> w.buf \o BitsToBytes(all),
         cur |-> BitsValue(SubSeq(all, 8 * full + 1, Len(all))),
         nbits |-> Len(all) % 8]

\* a write_bits that appends the low n bits least significant first
write_bits_LowFirst(w, x, n) ==
    IF n < 0 THEN [w |-> w, err |-> TRUE]
    ELSE IF n = 0 THEN [w |-> w, err |-> FALSE]
    ELSE IF x < 0 THEN [w |-> w, err |-> TRUE]
    ELSE [w |-> WriteBitSeq(w, [i \in 1..n |-> IntBits(x, n)[n + 1 - i]]),
          err |-> FALSE]

\* write_bits(x, n) for an integer x; x is truncated to its low n bits
write_bits(w, x, n) ==
    IF n < 0 THEN [w |-> w, err |-> TRUE]
    ELSE IF n = 0 THEN [w |-> w, err |-> FALSE]
    ELSE IF x < 0 THEN [w |-> w, err |-> TRUE]
    ELSE [w |-> WriteBitSeq(w, IntBits(x, n)), err |-> FALSE]

\* to_twos_complement without the test of the range
to_twos_complement_Unchecked(x, num_bits) ==
    IF num_bits <= 0 THEN [err |-> TRUE, bits |-> <<>>]
    ELSE [err |-> FALSE, bits |-> TwosBits(x, num_bits)]

\* to_twos_complement(x, num_bits); the pattern is given as its num_bits bits
to_twos_complement(x, num_bits) ==
    IF num_bits <= 0 THEN [err |-> TRUE, bits |-> <<>>]
    ELSE IF num_bits < 31 /\ (x < 0 - 2^(num_bits - 1) \/ x > 2^(num_bits - 1) - 1)
         THEN [err |-> TRUE, bits |-> <<>>]
         ELSE [err |-> FALSE, bits |-> TwosBits(x, num_bits)]

\* write_signed(x, bits): the conversion raises before write_bits is called
write_signed(w, x, bits) ==
    LET t == to_twos_complement(x, bits)
    IN  IF t.err THEN [w |-> w, err |-> TRUE]
        ELSE [w |-> WriteBitSeq(w, t.bits), err |-> FALSE]

\* an align_to_byte that flushes _cur even when no bit is pending
align_to_byte_Always(w) ==
    [buf |-> Append(w.buf, (w.cur * 2^(8 - w.nbits)) % 256), cur |-> 0, nbits |-> 0]

align_to_byte(w) ==
    IF w.nbits # 0
    THEN [buf |-> Append(w.buf, (w.cur * 2^(8 - w.nbits)) % 256), cur |-> 0, nbits |-> 0]
    ELSE w

\* a write_bytes that does not align first
write_bytes_NoAlign(w, bs) == [w EXCEPT !.buf = w.buf \o bs]

write_bytes(w, bs) ==
    IF bs = <<>> THEN w
    ELSE LET a == align_to_byte(w)
         IN  [buf |-> a.buf \o bs, cur |-> a.cur, nbits |-> a.nbits]

write_i64(w, x) == write_bytes(w, PackI64(x))

write_u32(w, x) == write_bytes(w, PackU32(x))

\* reserve_u32(): the writer and the offset returned
reserve_u32(w) ==
    [w |-> [align_to_byte(w) EXCEPT !.buf = align_to_byte(w).buf \o <<0, 0, 0, 0>>],
     offset |-> Len(align_to_byte(w).buf)]

\* a patch_u32 that puts the 4 bytes in front of the ones at offset
patch_u32_Insert(w, offset, x) ==
    IF offset < 0 \/ offset + 4 > Len(w.buf) THEN [w |-> w, err |-> TRUE]
    ELSE [w |-> [w EXCEPT !.buf = SubSeq(w.buf, 1, offset) \o PackU32(x)
                                     \o SubSeq(w.buf, offset + 1, Len(w.buf))],
          err |-> FALSE]

\* patch_u32(offset, x): err when it raises ValueError
patch_u32(w, offset, x) ==
    IF offset < 0 \/ offset + 4 > Len(w.buf) THEN [w |-> w, err |-> TRUE]
    ELSE [w |-> [w EXCEPT !.buf = [i \in 1..Len(w.buf) |->
                                     IF offset < i /\ i <= offset + 4
                                     THEN PackU32(x)[i - offset]
                                     ELSE w.buf[i]]],
          err |-> FALSE]

\* to_bytes(): aligns the writer, then copies the buffer
to_bytes(w) == [w |-> align_to_byte(w), bytes |-> align_to_byte(w).buf]

-----------------------------------------------------------------------------
(* BitReader *)

\* BitReader.__init__
NewReader(data) == [data |-> data, byte_pos |-> 0, bit_pos |-> 0]

\* a read_bit that returns 0 for a bit that is not there
read_bit_ZeroFill(r) ==
    IF r.byte_pos >= Len(r.data) THEN [r |-> r, bit |-> 0, err |-> FALSE]
    ELSE LET bit == (r.data[r.byte_pos + 1] \div 2^(7 - r.bit_pos)) % 2
         IN  IF r.bit_pos + 1 = 8
             THEN [r |-> [r EXCEPT !.bit_pos = 0, !.byte_pos = r.byte_pos + 1],
                   bit |-> bit, err |-> FALSE]
             ELSE [r |-> [r EXCEPT !.bit_pos = r.bit_pos + 1], bit |-> bit, err |-> FALSE]

\* read_bit(): err is TRUE for EOFError
read_bit(r) ==
    IF r.byte_pos >= Len(r.data) THEN [r |-> r, bit |-> 0, err |-> TRUE]
    ELSE LET bit == (r.data[r.byte_pos + 1] \div 2^(7 - r.bit_pos)) % 2
         IN  IF r.bit_pos + 1 = 8
             THEN [r |-> [r EXCEPT !.bit_pos = 0, !.byte_pos = r.byte_pos + 1],
                   bit |-> bit, err |-> FALSE]
             ELSE [r |-> [r EXCEPT !.bit_pos = r.bit_pos + 1], bit |-> bit, err |-> FALSE]

\* the loop of read_bits: n calls of read_bit; it stops at the first
\* EOFError, the cursor staying where the failing read_bit found it (the end
\* of the data)
ReadBitSeq(r, n) ==
    LET pos == r.byte_pos * 8 + r.bit_pos
        left == IF r.byte_pos >= Len(r.data) THEN 0 ELSE Len(r.data) * 8 - pos
    IN  IF n <= left
        THEN [r |-> [r EXCEPT !.byte_pos = (pos + n) \div 8, !.bit_pos = (pos + n) % 8],
              bits |-> [i \in 1..n |->
                          (r.data[((pos + i - 1) \div 8) + 1]
                              \div 2^(7 - ((pos + i - 1) % 8))) % 2],
              err |-> FALSE]
        ELSE [r |-> IF left = 0 THEN r ELSE [r EXCEPT !.byte_pos = Len(r.data), !.bit_pos = 0],
              bits |-> <<>>, err |-> TRUE]

\* read_bits(n) as an unsigned integer
read_bits(r, n) ==
    IF n < 0 THEN [r |-> r, val |-> 0, err |-> TRUE]
    ELSE LET s == ReadBitSeq(r, n)
         IN  [r |-> s.r, val |-> IF s.err THEN 0 ELSE UnsignedValue(s.bits), err |-> s.err]

\* a read_signed that returns the unsigned value
read_signed_Unsigned(r, bits) ==
    LET s == ReadBitSeq(r, bits)
    IN  [r |-> s.r, val |-> IF s.err THEN 0 ELSE UnsignedValue(s.bits), err |-> s.err]

\* read_signed(bits)
read_signed(r, bits) ==
    LET s == ReadBitSeq(r, bits)
    IN  [r |-> s.r, val |-> IF s.err THEN 0 ELSE SignedValue(s.bits), err |-> s.err]

\* bits_remaining counting the bytes not yet finished, without the bit cursor
bits_remaining_WholeBytes(r) == (Len(r.data) - r.byte_pos) * 8

\* the property bits_remaining
bits_remaining(r) == (Len(r.data) - r.byte_pos) * 8 - r.bit_pos

\* an align_to_byte that stays in the byte it leaves
reader_align_to_byte_SameByte(r) ==
    IF r.bit_pos > 0 THEN [r EXCEPT !.bit_pos = 0] ELSE r

reader_align_to_byte(r) ==
    IF r.bit_pos > 0 THEN [r EXCEPT !.bit_pos = 0, !.byte_pos = r.byte_pos + 1] ELSE r

\* read_i64(): aligns, then struct.unpack raises struct.error (err) on a
\* short slice before the cursor is advanced
read_i64(r) ==
    LET a == reader_align_to_byte(r)
    IN  IF a.byte_pos + 8 > Len(a.data)
        THEN [r |-> a, val |-> 0, err |-> TRUE, kind |-> "struct.error"]
        ELSE [r |-> [a EXCEPT !.byte_pos = a.byte_pos + 8],
              val |-> UnpackI64(SubSeq(a.data, a.byte_pos + 1, a.byte_pos + 8)),
              err |-> FALSE, kind |-> "none"]

\* read_u32(): as read_i64 with 4 bytes
read_u32(r) ==
    LET a == reader_align_to_byte(r)
    IN  IF a.byte_pos + 4 > Len(a.data)
        THEN [r |-> a, val |-> 0, err |-> TRUE, kind |-> "struct.error"]
        ELSE [r |-> [a EXCEPT !.byte_pos = a.byte_pos + 4],
              val |-> UnpackU32(SubSeq(a.data, a.byte_pos + 1, a.byte_pos + 4)),
              err |-> FALSE, kind |-> "none"]

\* a peek_bit that moves the cursor as read_bit does
peek_bit_Advancing(r) == read_bit(r)

\* peek_bit(): err is TRUE for EOFError; the cursor is not moved
peek_bit(r) ==
    IF r.byte_pos >= Len(r.data) THEN [r |-> r, bit |-> 0, err |-> TRUE]
    ELSE [r |-> r, bit |-> (r.data[r.byte_pos + 1] \div 2^(7 - r.bit_pos)) % 2,
          err |-> FALSE]

read_bytes_Unchecked(r, n) ==
    LET a == reader_align_to_byte(r)
    IN  [r |-> [a EXCEPT !.byte_pos = a.byte_pos + n], bytes |-> <<>>, err |-> FALSE]

\* read_bytes(n): aligns, then raises EOFError (err) when fewer than n bytes
\* are left
read_bytes(r, n) ==
    LET a == reader_align_to_byte(r)
    IN  IF a.byte_pos + n > Len(a.data) THEN [r |-> a, bytes |-> <<>>, err |-> TRUE]
        ELSE [r |-> [a EXCEPT !.byte_pos = a.byte_pos + n],
              bytes |-> SubSeq(a.data, a.byte_pos + 1, a.byte_pos + n),
              err |-> FALSE]

-----------------------------------------------------------------------------
(* TimestampEncoder / TimestampDecoder *)

\* TimestampEncoder.__init__ and TimestampDecoder.__init__
NewTsCodec == [prev_timestamp |-> None, prev_delta |-> None, count |-> 0]

\* _encode_delta_of_delta without the one-bit code of dod == 0
encode_delta_of_delta_NoZeroCode(w, dod) ==
    IF -63 <= dod /\ dod <= 64
    THEN write_signed(write_bit(write_bit(w, 1), 0), dod, 7)
    ELSE IF -255 <= dod /\ dod <= 256
         THEN write_signed(write_bit(write_bit(write_bit(w, 1), 1), 0), dod, 9)
    ELSE IF -2047 <= dod /\ dod <= 2048
         THEN write_signed(write_bit(write_bit(write_bit(write_bit(w, 1), 1), 1), 0), dod, 12)
    ELSE write_signed(write_bit(write_bit(write_bit(write_bit(w, 1), 1), 1), 1), dod, 32)

\* the control bits are written before write_signed checks the range
encode_delta_of_delta(w, dod) ==
    IF dod = 0 THEN [w |-> write_bit(w, 0), err |-> FALSE]
    ELSE IF -63 <= dod /\ dod <= 64
         THEN write_signed(write_bit(write_bit(w, 1), 0), dod, 7)
    ELSE IF -255 <= dod /\ dod <= 256
         THEN write_signed(write_bit(write_bit(write_bit(w, 1), 1), 0), dod, 9)
    ELSE IF -2047 <= dod /\ dod <= 2048
         THEN write_signed(write_bit(write_bit(write_bit(write_bit(w, 1), 1), 1), 0), dod, 12)
    ELSE write_signed(write_bit(write_bit(write_bit(write_bit(w, 1), 1), 1), 1), dod, 32)

\* add_timestamp(timestamp): the new writer and encoder state; err when the
\* call raises (the encoder fields are then not updated)
add_timestamp(w, e, timestamp) ==
    IF e.count = 0
    THEN [w |-> write_i64(w, timestamp),
          e |-> [e EXCEPT !.prev_timestamp = timestamp, !.count = 1],
          err |-> FALSE]
    ELSE LET delta == timestamp - e.prev_timestamp IN
         IF e.count = 1
         THEN [w |-> write_i64(w, delta),
               e |-> [prev_timestamp |-> timestamp, prev_delta |-> delta, count |-> 2],
               err |-> FALSE]
         ELSE LET delta_of_delta == delta - e.prev_delta
                  res == encode_delta_of_delta(w, delta_of_delta)
              IN  IF res.err THEN [w |-> res.w, e |-> e, err |-> TRUE]
                  ELSE [w |-> res.w,
                        e |-> [prev_timestamp |-> timestamp, prev_delta |-> delta,
                               count |-> e.count + 1],
                        err |-> FALSE]

decode_delta_of_delta(r) ==
    LET b1 == read_bit(r) IN
    IF b1.err THEN [r |-> b1.r, val |-> 0, err |-> TRUE]
    ELSE IF b1.bit = 0 THEN [r |-> b1.r, val |-> 0, err |-> FALSE]
    ELSE LET b2 == read_bit(b1.r) IN
    IF b2.err THEN [r |-> b2.r, val |-> 0, err |-> TRUE]
    ELSE IF b2.bit = 0 THEN read_signed(b2.r, 7)
    ELSE LET b3 == read_bit(b2.r) IN
    IF b3.err THEN [r |-> b3.r, val |-> 0, err |-> TRUE]
    ELSE IF b3.bit = 0 THEN read_signed(b3.r, 9)
    ELSE LET b4 == read_bit(b3.r) IN
    IF b4.err THEN [r |-> b4.r, val |-> 0, err |-> TRUE]
    ELSE IF b4.bit = 0 THEN read_signed(b4.r, 12)
    ELSE read_signed(b4.r, 32)

\* read_timestamp(): the new reader and decoder state and the value returned
read_timestamp(r, d) ==
    IF d.count = 0
    THEN LET x == read_i64(r)
         IN  IF x.err THEN [r |-> x.r, d |-> d, val |-> 0, err |-> TRUE]
             ELSE [r |-> x.r, d |-> [d EXCEPT !.prev_timestamp = x.val, !.count = 1],
                   val |-> x.val, err |-> FALSE]
    ELSE IF d.count = 1
    THEN LET x == read_i64(r)
             timestamp == Plus(d.prev_timestamp, x.val)
         IN  IF x.err THEN [r |-> x.r, d |-> d, val |-> 0, err |-> TRUE]
             ELSE [r |-> x.r,
                   d |-> [prev_timestamp |-> timestamp, prev_delta |-> x.val, count |-> 2],
                   val |-> timestamp, err |-> FALSE]
    ELSE LET x == decode_delta_of_delta(r)
             delta == Plus(d.prev_delta, x.val)
             timestamp == Plus(d.prev_timestamp, delta)
         IN  IF x.err THEN [r |-> x.r, d |-> d, val |-> 0, err |-> TRUE]
             ELSE [r |-> x.r,
                   d |-> [prev_timestamp |-> timestamp, prev_delta |-> delta,
                          count |-> d.count + 1],
                   val |-> timestamp, err |-> FALSE]

-----------------------------------------------------------------------------
(* 64-bit patterns *)

Zeros(n) == [i \in 1..n |-> 0]

\* a | b on 64-bit patterns
Xor_Or(a, b) == [i \in 1..64 |-> IF a[i] + b[i] > 0 THEN 1 ELSE 0]

\* a ^ b on 64-bit patterns
Xor(a, b) == [i \in 1..64 |-> (a[i] + b[i]) % 2]

\* len(bin_xor) - len(bin_xor.lstrip('0')): 64 for the zero pattern
LeadingZeros(x) ==
    IF AllEqual(x, 0) THEN 64
    ELSE (CHOOSE i \in 1..64 : x[i] = 1 /\ \A j \in 1..(i - 1) : x[j] = 0) - 1

\* len(bin_xor) - len(bin_xor.rstrip('0'))
TrailingZeros(x) ==
    IF AllEqual(x, 0) THEN 64
    ELSE 64 - (CHOOSE i \in 1..64 : x[i] = 1 /\ \A j \in (i + 1)..64 : x[j] = 0)

\* x >> k on a 64-bit pattern
ShiftRight(x, k) == Zeros(k) \o SubSeq(x, 1, 64 - k)

\* write_bits(x, n) for a 64-bit pattern x: its low n bits
write_bits_word(w, x, n) == WriteBitSeq(w, SubSeq(x, 64 - n + 1, 64))

\* struct.pack(">Q", x & MASK64)
PackU64(x) == BitsToBytes(x)

write_u64(w, x) == write_bytes(w, PackU64(x))

\* read_u64(): aligns, then struct.unpack raises struct.error (err) on a
\* short slice; the value is held as its 64-bit pattern
read_u64(r) ==
    LET a == reader_align_to_byte(r)
    IN  IF a.byte_pos + 8 > Len(a.data)
        THEN [r |-> a, val |-> Zeros(64), err |-> TRUE, kind |-> "struct.error"]
        ELSE [r |-> [a EXCEPT !.byte_pos = a.byte_pos + 8],
              val |-> BytesToBits(SubSeq(a.data, a.byte_pos + 1, a.byte_pos + 8)),
              err |-> FALSE, kind |-> "none"]

\* struct.unpack(">Q", struct.pack(">d", val)): a float is held as its pattern
float_to_bits(val) == val

\* struct.unpack(">d", struct.pack(">Q", bits & MASK64))
bits_to_float(bits) == bits

-----------------------------------------------------------------------------
(* ValueEncoder / ValueDecoder *)

\* ValueEncoder.__init__
NewValueEncoder ==
    [prev_value_bits |-> Zeros(64), prev_leading |-> 255, prev_trailing |-> 255, count |-> 0]

\* ValueDecoder.__init__
NewValueDecoder ==
    [prev_value_bits |-> Zeros(64), prev_leading |-> 0, prev_trailing |-> 0, count |-> 0]

\* add_value reusing the window without looking at the trailing zeros
ReuseStandard_NoTrailing(e, leading, trailing) ==
    /\ e.prev_leading # 255
    /\ leading >= e.prev_leading

\* the condition of add_value under which the previous window is reused
ReuseStandard(e, leading, trailing) ==
    /\ e.prev_leading # 255
    /\ leading >= e.prev_leading
    /\ trailing >= e.prev_trailing

ReuseVerification_NoLimit(e, leading, trailing) ==
    /\ e.prev_leading # 255
    /\ leading >= e.prev_leading
    /\ trailing >= e.prev_trailing

\* the condition of add_value_verification
ReuseVerification(e, leading, trailing) ==
    /\ e.prev_leading # 255
    /\ leading >= e.prev_leading
    /\ trailing >= e.prev_trailing
    /\ ~((64 - e.prev_trailing - e.prev_leading) - (64 - trailing - leading) > 11)

\* the body shared by add_value and add_value_verification; reuse is the
\* outcome of the method's window test
EncodeValue(w, e, val, verification) ==
    LET v_bits == float_to_bits(val) IN
    IF e.count = 0
    THEN [w |-> write_u64(w, v_bits),
          e |-> [e EXCEPT !.prev_value_bits = v_bits, !.count = 1]]
    ELSE LET xor == Xor(v_bits, e.prev_value_bits) IN
         IF AllEqual(xor, 0)
         THEN [w |-> write_bit(w, 0),
               e |-> [e EXCEPT !.prev_value_bits = v_bits, !.count = e.count + 1]]
         ELSE LET w1 == write_bit(w, 1)
                  lz == LeadingZeros(xor)
                  leading == IF lz > 31 THEN 31 ELSE lz
                  trailing == TrailingZeros(xor)
                  reuse == IF verification THEN ReuseVerification(e, leading, trailing)
                           ELSE ReuseStandard(e, leading, trailing)
              IN  IF reuse
                  THEN LET meaningful_bits == 64 - e.prev_leading - e.prev_trailing
                       IN  [w |-> write_bits_word(write_bit(w1, 0),
                                                  ShiftRight(xor, e.prev_trailing),
                                                  meaningful_bits),
                            e |-> [e EXCEPT !.prev_value_bits = v_bits,
                                            !.count = e.count + 1]]
                  ELSE LET meaningful_bits == 64 - leading - trailing
                           w2 == write_bits(write_bit(w1, 1), leading, 5).w
                           w3 == write_bits(w2, meaningful_bits - 1, 6).w
                       IN  [w |-> write_bits_word(w3, ShiftRight(xor, trailing),
                                                  meaningful_bits),
                            e |-> [prev_value_bits |-> v_bits, prev_leading |-> leading,
                                   prev_trailing |-> trailing, count |-> e.count + 1]]

add_value(w, e, val) == EncodeValue(w, e, val, FALSE)

add_value_verification(w, e, val) == EncodeValue(w, e, val, TRUE)

\* the tail of read_value once the window is known: reads the meaningful
\* bits, shifts them left by prev_trailing and xors; err for EOFError and for
\* the ValueError of an invalid width or of a negative shift count
ReadMeaningful(r, d, meaningful_bits) ==
    IF meaningful_bits < 0 \/ meaningful_bits > 64
    THEN [r |-> r, d |-> d, val |-> Zeros(64), err |-> TRUE]
    ELSE LET s == ReadBitSeq(r, meaningful_bits) IN
         IF s.err \/ d.prev_trailing < 0
         THEN [r |-> s.r, d |-> d, val |-> Zeros(64), err |-> TRUE]
         ELSE LET xor_val == Zeros(64 - meaningful_bits - d.prev_trailing)
                                 \o s.bits \o Zeros(d.prev_trailing)
                  current_bits == Xor(d.prev_value_bits, xor_val)
              IN  [r |-> s.r,
                   d |-> [d EXCEPT !.prev_value_bits = current_bits, !.count = d.count + 1],
                   val |-> bits_to_float(current_bits), err |-> FALSE]

DecoderWindow_KeepTrailing(d, leading, length_bits) ==
    [d EXCEPT !.prev_leading = leading]

\* the window read_value stores after the 5-bit and the 6-bit field:
\* "self._prev_trailing = 64 - self._prev_leading - meaningful_bits"
DecoderWindow(d, leading, length_bits) ==
    [d EXCEPT !.prev_leading = leading,
              !.prev_trailing = 64 - leading - (length_bits + 1)]

\* read_value(): the new reader and decoder state and the value returned
read_value(r, d) ==
    IF d.count = 0
    THEN LET x == read_u64(r)
         IN  IF x.err THEN [r |-> x.r, d |-> d, val |-> Zeros(64), err |-> TRUE]
             ELSE [r |-> x.r, d |-> [d EXCEPT !.prev_value_bits = x.val, !.count = 1],
                   val |-> bits_to_float(x.val), err |-> FALSE]
    ELSE LET b1 == read_bit(r) IN
    IF b1.err THEN [r |-> b1.r, d |-> d, val |-> Zeros(64), err |-> TRUE]
    ELSE IF b1.bit = 0
    THEN [r |-> b1.r, d |-> d, val |-> bits_to_float(d.prev_value_bits), err |-> FALSE]
    ELSE LET b2 == read_bit(b1.r) IN
    IF b2.err THEN [r |-> b2.r, d |-> d, val |-> Zeros(64), err |-> TRUE]
    ELSE IF b2.bit = 0
    THEN ReadMeaningful(b2.r, d, 64 - d.prev_leading - d.prev_trailing)
    ELSE LET l == read_bits(b2.r, 5) IN
    IF l.err THEN [r |-> l.r, d |-> d, val |-> Zeros(64), err |-> TRUE]
    ELSE LET n == read_bits(l.r, 6)
             d1 == [d EXCEPT !.prev_leading = l.val] IN
    IF n.err THEN [r |-> n.r, d |-> d1, val |-> Zeros(64), err |-> TRUE]
    ELSE ReadMeaningful(n.r, DecoderWindow(d, l.val, n.val), n.val + 1)

-----------------------------------------------------------------------------
(* MultiVariateBlock / MultiVariateDecoder *)

\* An Optional object is a tuple: <<>> for None, <<x>> for x.

\* MultiVariateBlock.__init__ (variable_names not empty)
NewBlock(variable_names, start_timestamp) ==
    [var_names |-> variable_names,
     writer |-> NewWriter,
     ts_encoder |-> NewTsCodec,
     val_encoders |-> [i \in 1..Len(variable_names) |-> NewValueEncoder],
     count |-> 0,
     closed |-> FALSE,
     compressed_data |-> <<>>,
     start_timestamp |-> start_timestamp]

RECURSIVE AddValues_SharedContext(_, _, _, _, _)
\* the loop of add with one XOR context used for every variable
AddValues_SharedContext(w, encs, names, values, i) ==
    IF i > Len(names) THEN [w |-> w, encs |-> encs]
    ELSE LET r == add_value(w, encs[1], values[names[i]])
         IN  AddValues_SharedContext(r.w, [encs EXCEPT ![1] = r.e], names, values, i + 1)

RECURSIVE AddValues(_, _, _, _, _)
\* the loop "for name in self._var_names: self._val_encoders[name].add_value(...)"
\* from the i-th name on; the encoder of the i-th name is val_encoders[i]
AddValues(w, encs, names, values, i) ==
    IF i > Len(names) THEN [w |-> w, encs |-> encs]
    ELSE LET r == add_value(w, encs[i], values[names[i]])
         IN  AddValues(r.w, [encs EXCEPT ![i] = r.e], names, values, i + 1)

\* the end of add: v is what the loop over the variables left, e the
\* timestamp encoder; "self._count += 1"
AddCount(b1, e, v) ==
    [b |-> [b1 EXCEPT !.writer = v.w, !.ts_encoder = e, !.val_encoders = v.encs,
                      !.count = b1.count + 1],
     err |-> FALSE, codec |-> FALSE]

\* add once add_timestamp has returned t: when it raised, the bits it wrote
\* stay in the shared writer; otherwise the values are written
AddAfterTimestamp(b1, t, values) ==
    IF t.err
    THEN [b |-> [b1 EXCEPT !.writer = t.w, !.ts_encoder = t.e], err |-> TRUE, codec |-> TRUE]
    ELSE AddCount(b1, t.e, AddValues(t.w, b1.val_encoders, b1.var_names, values, 1))

\* add on a block b1 that is open, has its start_timestamp and is offered
\* every variable: the timestamp is written, then the values
AddEncoded(b1, timestamp, values) ==
    AddAfterTimestamp(b1, add_timestamp(b1.writer, b1.ts_encoder, timestamp), values)

\* add setting start_timestamp before it looks for missing variables
add_StartBeforeCheck(b, timestamp, values) ==
    IF b.closed THEN [b |-> b, err |-> TRUE, codec |-> FALSE]
    ELSE IF \E i \in 1..Len(b.var_names) : b.var_names[i] \notin DOMAIN values
    THEN [b |-> IF b.count = 0 /\ b.start_timestamp = None
                THEN [b EXCEPT !.start_timestamp = timestamp] ELSE b,
          err |-> TRUE, codec |-> FALSE]
    ELSE AddEncoded(IF b.count = 0 /\ b.start_timestamp = None
                    THEN [b EXCEPT !.start_timestamp = timestamp] ELSE b,
                    timestamp, values)

\* MultiVariateBlock.add(timestamp, values); values is a function on the
\* names it holds.  err when the call raises; b is the block it leaves.
add(b, timestamp, values) ==
    IF b.closed THEN [b |-> b, err |-> TRUE, codec |-> FALSE]
    ELSE IF \E i \in 1..Len(b.var_names) : b.var_names[i] \notin DOMAIN values
    THEN [b |-> b, err |-> TRUE, codec |-> FALSE]
    ELSE AddEncoded(IF b.count = 0 /\ b.start_timestamp = None
                    THEN [b EXCEPT !.start_timestamp = timestamp] ELSE b,
                    timestamp, values)

\* seal without the test of _closed: every call finalizes the writer again
seal_Again(b) ==
    LET data == to_bytes(b.writer).bytes
    IN  [b |-> [b EXCEPT !.compressed_data = <<data>>,
                         !.closed = TRUE,
                         !.writer = NewWriter,
                         !.ts_encoder = NewTsCodec,
                         !.val_encoders = [i \in 1..Len(b.var_names) |-> NewValueEncoder]],
         bytes |-> data]

\* MultiVariateBlock.seal(): the writer and the encoders are released (set to
\* None; nothing reads them once _closed is set), shown here as fresh ones
seal(b) ==
    IF b.closed THEN [b |-> b, bytes |-> b.compressed_data[1]]
    ELSE LET data == to_bytes(b.writer).bytes
         IN  [b |-> [b EXCEPT !.compressed_data = <<data>>,
                              !.closed = TRUE,
                              !.writer = NewWriter,
                              !.ts_encoder = NewTsCodec,
                              !.val_encoders = [i \in 1..Len(b.var_names) |-> NewValueEncoder]],
              bytes |-> data]

\* MultiVariateBlock.get_compressed_data(): on an open block it calls
\* to_bytes() on the block's own writer
get_compressed_data(b) ==
    IF ~b.closed
    THEN [b |-> [b EXCEPT !.writer = to_bytes(b.writer).w], bytes |-> to_bytes(b.writer).bytes]
    ELSE [b |-> b, bytes |-> b.compressed_data[1]]

\* MultiVariateDecoder.__init__
NewDecoder(data, variable_names) ==
    [var_names |-> variable_names,
     reader |-> NewReader(data),
     ts_decoder |-> NewTsCodec,
     val_decoders |-> [i \in 1..Len(variable_names) |-> NewValueDecoder],
     count |-> 0]

RECURSIVE ReadValues(_, _, _, _, _)
\* one turn of the loop of read_point once read_value has returned x for the
\* i-th name
ReadValuesNext(x, decs, names, vals, i) ==
    IF x.err
    THEN [r |-> x.r, decs |-> [decs EXCEPT ![i] = x.d], vals |-> vals, err |-> TRUE]
    ELSE ReadValues(x.r, [decs EXCEPT ![i] = x.d], names, Append(vals, x.val), i + 1)

\* the loop "for name in self._var_names: values[name] = ...read_value()"
\* from the i-th name on; vals collects the values read so far
ReadValues(r, decs, names, vals, i) ==
    IF i > Len(names) THEN [r |-> r, decs |-> decs, vals |-> vals, err |-> FALSE]
    ELSE ReadValuesNext(read_value(r, decs[i]), decs, names, vals, i)

\* a point (timestamp, values) as handed to add and returned by read_point
Point(timestamp, names, vals) ==
    [ts |-> timestamp, values |-> [n \in {names[i] : i \in 1..Len(names)} |->
                                      vals[CHOOSE i \in 1..Len(names) : names[i] = n]]]

\* the end of read_point: v is what the loop over the variables left, e the
\* timestamp decoder and timestamp the timestamp read
ReadPointCount(d, e, timestamp, v) ==
    IF v.err
    THEN [d |-> [d EXCEPT !.reader = v.r, !.ts_decoder = e, !.val_decoders = v.decs],
          point |-> Point(0, <<>>, <<>>), err |-> TRUE]
    ELSE [d |-> [d EXCEPT !.reader = v.r, !.ts_decoder = e,
                          !.val_decoders = v.decs, !.count = d.count + 1],
          point |-> Point(timestamp, d.var_names, v.vals), err |-> FALSE]

\* read_point once read_timestamp has returned t
ReadPointAfterTimestamp(d, t) ==
    IF t.err
    THEN [d |-> [d EXCEPT !.reader = t.r, !.ts_decoder = t.d],
          point |-> Point(0, <<>>, <<>>), err |-> TRUE]
    ELSE ReadPointCount(d, t.d, t.val,
                        ReadValues(t.r, d.val_decoders, d.var_names, <<>>, 1))

\* MultiVariateDecoder.read_point(): err when it raises
read_point(d) == ReadPointAfterTimestamp(d, read_timestamp(d.reader, d.ts_decoder))

-----------------------------------------------------------------------------
(* MultiVariateSeries *)

\* MultiVariateSeries.__init__
NewSeries(variable_names, block_duration_ms) ==
    [var_names |-> variable_names,
     block_duration |-> block_duration_ms,
     open_block |-> <<>>,
     closed_blocks |-> <<>>]

\* a division that rounds towards zero
FloorDiv_Truncating(timestamp, block_duration) ==
    IF timestamp >= 0 THEN timestamp \div block_duration
    ELSE 0 - ((0 - timestamp) \div block_duration)

\* timestamp // block_duration for a positive block_duration
FloorDiv(timestamp, block_duration) == timestamp \div block_duration

\* _create_new_block(timestamp)
create_new_block(s, timestamp) ==
    LET aligned_start == FloorDiv(timestamp, s.block_duration) * s.block_duration
    IN  [s EXCEPT !.open_block = <<NewBlock(s.var_names, aligned_start)>>]

\* _close_current_block putting the sealed block at the head of the list
close_current_block_Prepend(s) ==
    IF s.open_block # <<>> /\ s.open_block[1].count > 0
    THEN LET sealed == seal(s.open_block[1])
         IN  [s EXCEPT !.closed_blocks =
                           <<[start |-> sealed.b.start_timestamp,
                              count |-> sealed.b.count,
                              data |-> sealed.bytes]>> \o s.closed_blocks,
                       !.open_block = <<>>]
    ELSE [s EXCEPT !.open_block = <<>>]

\* _close_current_block()
close_current_block(s) ==
    IF s.open_block # <<>> /\ s.open_block[1].count > 0
    THEN LET sealed == seal(s.open_block[1])
         IN  [s EXCEPT !.closed_blocks =
                           Append(s.closed_blocks,
                                  [start |-> sealed.b.start_timestamp,
                                   count |-> sealed.b.count,
                                   data |-> sealed.bytes]),
                       !.open_block = <<>>]
    ELSE [s EXCEPT !.open_block = <<>>]

\* the test of insert with > for >=
NeedsRotation_Strict(s, timestamp) ==
    timestamp > s.open_block[1].start_timestamp + s.block_duration

\* the test of insert that closes the open block and opens a new one
NeedsRotation(s, timestamp) ==
    timestamp >= s.open_block[1].start_timestamp + s.block_duration

\* insert(timestamp, values): the block is chosen, then add is called on it;
\* err when add raises
insert(s, timestamp, values) ==
    LET s1 == IF s.open_block = <<>> THEN create_new_block(s, timestamp)
              ELSE IF NeedsRotation(s, timestamp)
                   THEN create_new_block(close_current_block(s), timestamp)
                   ELSE s
        r == add(s1.open_block[1], timestamp, values)
    IN  [s |-> [s1 EXCEPT !.open_block = <<r.b>>], err |-> r.err,
         created |-> (s.open_block = <<>> \/ NeedsRotation(s, timestamp))]

\* a flush that drops the open block without sealing it
flush_Discard(s) == [s EXCEPT !.open_block = <<>>]

\* flush()
flush(s) == close_current_block(s)

RECURSIVE DecodeRange(_, _, _, _, _)
\* one turn of the decoding loop of query once read_point has returned r:
\* "if t_start <= ts <= t_end: results.append((ts, values))"
DecodeRangeNext(r, count, t_start, t_end, acc) ==
    IF r.err THEN [points |-> acc, err |-> TRUE]
    ELSE DecodeRange(r.d, count - 1, t_start, t_end,
                     IF r.point.ts # OutOfRange
                        /\ t_start <= r.point.ts /\ r.point.ts <= t_end
                     THEN Append(acc, r.point) ELSE acc)

\* the loop "for _ in range(count): ts, values = decoder.read_point(); ..."
\* of query: acc extended by the points with t_start <= ts <= t_end; err
\* when read_point raises
DecodeRange(d, count, t_start, t_end, acc) ==
    IF count = 0 THEN [points |-> acc, err |-> FALSE]
    ELSE DecodeRangeNext(read_point(d), count, t_start, t_end, acc)

\* the test of query that a block is looked at
Overlaps(block_start, block_duration, t_start, t_end) ==
    block_start <= t_end /\ block_start + block_duration >= t_start

RECURSIVE QueryClosed(_, _, _, _, _)
\* the loop of query over the closed blocks once the i-th block is decoded
\* with the outcome r
QueryClosedNext(s, i, t_start, t_end, r) ==
    IF r.err THEN r ELSE QueryClosed(s, i + 1, t_start, t_end, r.points)

\* the loop of query over the closed blocks from the i-th on
QueryClosed(s, i, t_start, t_end, acc) ==
    IF i > Len(s.closed_blocks) THEN [points |-> acc, err |-> FALSE]
    ELSE LET c == s.closed_blocks[i]
         IN  IF Overlaps(c.start, s.block_duration, t_start, t_end)
             THEN QueryClosedNext(s, i, t_start, t_end,
                                  DecodeRange(NewDecoder(c.data, s.var_names), c.count,
                                              t_start, t_end, acc))
             ELSE QueryClosed(s, i + 1, t_start, t_end, acc)

\* the end of query: r is what decoding the open block gave, g what
\* get_compressed_data left of the open block
QueryReturn(s, g, r) ==
    [s |-> [s EXCEPT !.open_block = <<g.b>>],
     points |-> IF r.err THEN <<>> ELSE r.points, err |-> r.err]

\* the part of query on the open block, whose bytes get_compressed_data
\* returned in g; acc holds the points of the closed blocks
QueryOpenBlock(s, t_start, t_end, acc, g) ==
    QueryReturn(s, g, DecodeRange(NewDecoder(g.bytes, s.var_names), s.open_block[1].count,
                                  t_start, t_end, acc))

\* query once the closed blocks gave c: "if self._open_block and
\* self._open_block.count > 0: if block_start <= t_end and block_end >= t_start"
QueryOpen(s, t_start, t_end, c) ==
    IF c.err THEN [s |-> s, points |-> <<>>, err |-> TRUE]
    ELSE IF s.open_block # <<>> /\ s.open_block[1].count > 0
            /\ Overlaps(s.open_block[1].start_timestamp, s.block_duration, t_start, t_end)
    THEN QueryOpenBlock(s, t_start, t_end, c.points, get_compressed_data(s.open_block[1]))
    ELSE [s |-> s, points |-> c.points, err |-> FALSE]

\* query(t_start, t_end): the points returned, err when it raises, and the
\* series it leaves (get_compressed_data is called on the open block)
query(s, t_start, t_end) ==
    QueryOpen(s, t_start, t_end, QueryClosed(s, 1, t_start, t_end, <<>>))

total_points_ClosedOnly(s) ==
    LET Sum[i \in 0..Len(s.closed_blocks)] ==
            IF i = 0 THEN 0 ELSE Sum[i - 1] + s.closed_blocks[i].count
    IN  Sum[Len(s.closed_blocks)]

\* total_points
total_points(s) ==
    LET Sum[i \in 0..Len(s.closed_blocks)] ==
            IF i = 0 THEN 0 ELSE Sum[i - 1] + s.closed_blocks[i].count
    IN  Sum[Len(s.closed_blocks)]
        + (IF s.open_block # <<>> THEN s.open_block[1].count ELSE 0)

\* num_blocks
num_blocks(s) == Len(s.closed_blocks) + (IF s.open_block # <<>> THEN 1 ELSE 0)

\* "sum(len(data) for _, _, data in self._closed_blocks)"
ClosedSize(s) ==
    LET Sum[i \in 0..Len(s.closed_blocks)] ==
            IF i = 0 THEN 0 ELSE Sum[i - 1] + Len(s.closed_blocks[i].data)
    IN  Sum[Len(s.closed_blocks)]

\* the dictionary get_compression_stats returns for the series s, whose
\* open block (if any) gave open_size bytes; compression_ratio is the
\* quotient num / den of two integers
StatsDict_NoTimestamp(s, open_size) ==
    [total_points |-> total_points(s),
     num_variables |-> Len(s.var_names),
     num_blocks |-> num_blocks(s),
     original_bytes |-> total_points(s) * (8 * Len(s.var_names)),
     compressed_bytes |-> ClosedSize(s) + open_size,
     compression_ratio |->
         IF ClosedSize(s) + open_size > 0
         THEN [num |-> total_points(s) * (8 * Len(s.var_names)),
               den |-> ClosedSize(s) + open_size]
         ELSE [num |-> 0, den |-> 1]]

StatsDict(s, open_size) ==
    [total_points |-> total_points(s),
     num_variables |-> Len(s.var_names),
     num_blocks |-> num_blocks(s),
     original_bytes |-> total_points(s) * (8 + 8 * Len(s.var_names)),
     compressed_bytes |-> ClosedSize(s) + open_size,
     compression_ratio |->
         IF ClosedSize(s) + open_size > 0
         THEN [num |-> total_points(s) * (8 + 8 * Len(s.var_names)),
               den |-> ClosedSize(s) + open_size]
         ELSE [num |-> 0, den |-> 1]]

\* get_compression_stats once get_compressed_data returned g for the open block
StatsOpen(s, g) ==
    [s |-> [s EXCEPT !.open_block = <<g.b>>],
     stats |-> StatsDict([s EXCEPT !.open_block = <<g.b>>], Len(g.bytes))]

\* get_compression_stats(): "if was_open: open_block_data =
\* self._open_block.get_compressed_data()"; the series it leaves and the
\* dictionary it returns
get_compression_stats(s) ==
    IF s.open_block # <<>>
    THEN StatsOpen(s, get_compressed_data(s.open_block[1]))
    ELSE [s |-> s, stats |-> StatsDict(s, 0)]

-----------------------------------------------------------------------------
(* compress_timestamps / decompress_timestamps, one call at a time *)

\* the timestamps offered to the codec: 0, 1 and then 2, 65, 66, 258, 2050,
\* 5002 give delta-of-deltas 0, 63, 64, 256, 2048, 5000; -62 gives -64
TsValues == {0, 1, 2, 65, 66, 258, 2050, 5002, -62}

NoCall == [called |-> FALSE, err |-> FALSE, count |-> 0, dod |-> 0, grew |-> 0]

TsInit ==
    /\ tw = NewWriter
    /\ tenc = NewTsCodec
    /\ tfed = <<>>
    /\ tlast = NoCall
    /\ tphase = "write"
    /\ trd = NewReader(<<>>)
    /\ tdec = NewTsCodec
    /\ tout = <<>>

\* encoder.add_timestamp(ts) inside the loop of compress_timestamps
TsAdd(t) ==
    /\ tphase = "write"
    /\ Len(tfed) < MaxTs
    /\ \E res \in {add_timestamp(tw, tenc, t)} :
           /\ tw' = res.w
           /\ tenc' = res.e
           /\ tlast' = [called |-> TRUE, err |-> res.err, count |-> tenc.count,
                        dod |-> IF tenc.count >= 2
                                THEN (t - tenc.prev_timestamp) - tenc.prev_delta ELSE 0,
                        grew |-> bit_length(res.w) - bit_length(tw)]
    /\ tfed' = Append(tfed, t)
    /\ UNCHANGED <<tphase, trd, tdec, tout>>

\* writer.to_bytes() at the end of compress_timestamps and the construction
\* of the reader and decoder of decompress_timestamps
TsFinish ==
    /\ tphase = "write"
    /\ tw' = to_bytes(tw).w
    /\ trd' = NewReader(to_bytes(tw).bytes)
    /\ tdec' = NewTsCodec
    /\ tphase' = "read"
    /\ UNCHANGED <<tenc, tfed, tlast, tout>>

\* decoder.read_timestamp() inside the loop of decompress_timestamps(data, k),
\* k being the number of timestamps the encoder accepted
TsRead ==
    /\ tphase = "read"
    /\ Len(tout) < tenc.count
    /\ \E res \in {read_timestamp(trd, tdec)} :
           /\ trd' = res.r
           /\ tdec' = res.d
           /\ IF res.err
              THEN /\ tphase' = "failed"
                   /\ tout' = tout
              ELSE /\ tphase' = tphase
                   /\ tout' = Append(tout, res.val)
    /\ UNCHANGED <<tw, tenc, tfed, tlast>>

-----------------------------------------------------------------------------
(* ValueEncoder / ValueDecoder on one stream, one call at a time *)

\* 64-bit patterns of doubles, as 8 big-endian bytes
Word(b1, b2, b3, b4, b5, b6, b7, b8) == BytesToBits(<<b1, b2, b3, b4, b5, b6, b7, b8>>)

PosZero == Word(0, 0, 0, 0, 0, 0, 0, 0)          \* 0.0
NegZero == Word(128, 0, 0, 0, 0, 0, 0, 0)        \* -0.0
NaN == Word(127, 248, 0, 0, 0, 0, 0, 0)          \* float("nan")
PosInf == Word(127, 240, 0, 0, 0, 0, 0, 0)       \* +Inf
NegInf == Word(255, 240, 0, 0, 0, 0, 0, 0)       \* -Inf
V22_5 == Word(64, 54, 128, 0, 0, 0, 0, 0)        \* 22.5
V22_6 == Word(64, 54, 153, 153, 153, 153, 153, 154)  \* 22.6
MinSub == Word(0, 0, 0, 0, 0, 0, 0, 1)           \* 5e-324
AllOnes == Word(255, 255, 255, 255, 255, 255, 255, 255)  \* a NaN with full payload

ValPatterns == {PosZero, NegZero, NaN, PosInf, NegInf, V22_5, V22_6, MinSub, AllOnes}

\* prev_leading and prev_trailing are the window before the call, bit the
\* last bit in the writer after it
NoValCall ==
    [called |-> FALSE, count |-> 0, same |-> FALSE, grew |-> 0,
     prev_leading |-> 255, prev_trailing |-> 255, bit |-> 0]

ValInit ==
    /\ vmode \in {"standard", "verification"}
    /\ vw = NewWriter
    /\ venc = NewValueEncoder
    /\ vfed = <<>>
    /\ vlast = NoValCall
    /\ vphase = "write"
    /\ vrd = NewReader(<<>>)
    /\ vdec = NewValueDecoder
    /\ vout = <<>>

\* encoder.add_value(v) or encoder.add_value_verification(v)
ValAdd(v) ==
    /\ vphase = "write"
    /\ Len(vfed) < MaxVals
    /\ \E res \in {IF vmode = "verification" THEN add_value_verification(vw, venc, v)
                   ELSE add_value(vw, venc, v)} :
           /\ vw' = res.w
           /\ venc' = res.e
           /\ vlast' = [called |-> TRUE, count |-> venc.count,
                        same |-> (venc.count > 0 /\ v = venc.prev_value_bits),
                        grew |-> bit_length(res.w) - bit_length(vw),
                        prev_leading |-> venc.prev_leading,
                        prev_trailing |-> venc.prev_trailing,
                        bit |-> IF res.w.nbits = 0 THEN res.w.buf[Len(res.w.buf)] % 2
                                ELSE res.w.cur % 2]
    /\ vfed' = Append(vfed, v)
    /\ UNCHANGED <<vmode, vphase, vrd, vdec, vout>>

\* writer.to_bytes() and the construction of the reader and the decoder
ValFinish ==
    /\ vphase = "write"
    /\ vw' = to_bytes(vw).w
    /\ vrd' = NewReader(to_bytes(vw).bytes)
    /\ vdec' = NewValueDecoder
    /\ vphase' = "read"
    /\ UNCHANGED <<vmode, venc, vfed, vlast, vout>>

\* decoder.read_value(), called as many times as values were encoded
ValRead ==
    /\ vphase = "read"
    /\ Len(vout) < Len(vfed)
    /\ \E res \in {read_value(vrd, vdec)} :
           /\ vrd' = res.r
           /\ vdec' = res.d
           /\ IF res.err
              THEN /\ vphase' = "failed"
                   /\ vout' = vout
              ELSE /\ vphase' = vphase
                   /\ vout' = Append(vout, res.val)
    /\ UNCHANGED <<vmode, vw, venc, vfed, vlast>>

-----------------------------------------------------------------------------
(* One MultiVariateBlock: add, seal, then read_point on the sealed bytes *)

BlockNames == <<"a", "b">>

Values2(a, b) == [n \in {"a", "b"} |-> IF n = "a" THEN a ELSE b]

ValuesOnlyA(a) == [n \in {"a"} |-> a]

\* the points offered to add: the second (0, ...) makes delta 0, then 64
\* makes the delta-of-delta 64 and 65 makes it 65; one map lacks "b"
BlockPoints ==
    { [ts |-> 0, values |-> Values2(V22_5, PosZero)],
      [ts |-> 64, values |-> Values2(V22_6, NegZero)],
      [ts |-> 65, values |-> Values2(V22_5, NegZero)],
      [ts |-> 1, values |-> Values2(V22_6, PosZero)],
      [ts |-> 64, values |-> ValuesOnlyA(V22_5)] }

\* ret is what the last call returned when it was seal, first what the first
\* seal call returned: <<>> or <<bytes>>
NoBlockCall ==
    [op |-> "none", err |-> FALSE, adds |-> 0, missing |-> FALSE, ret |-> <<>>, first |-> <<>>]

BlkInit ==
    /\ blk = NewBlock(BlockNames, None)
    /\ bpre = NewBlock(BlockNames, None)
    /\ blast = NoBlockCall
    /\ bfed = <<>>
    /\ bfailed = FALSE
    /\ bdec = <<>>
    /\ bout = <<>>

\* block.add(p.ts, p.values)
BlkAdd(p) ==
    /\ bdec = <<>>
    /\ blast.adds < MaxAdds
    /\ \E res \in {add(blk, p.ts, p.values)} :
           /\ blk' = res.b
           /\ blast' = [op |-> "add", err |-> res.err, adds |-> blast.adds + 1,
                        missing |-> \E i \in 1..Len(blk.var_names) :
                                       blk.var_names[i] \notin DOMAIN p.values,
                        ret |-> <<>>, first |-> blast.first]
           /\ bfed' = IF res.err THEN bfed ELSE Append(bfed, p)
           /\ bfailed' = (bfailed \/ res.codec)
    /\ bpre' = blk
    /\ UNCHANGED <<bdec, bout>>

\* block.seal()
BlkSeal ==
    /\ bdec = <<>>
    /\ blast.op # "seal2"
    /\ blk' = seal(blk).b
    /\ bpre' = blk
    /\ blast' = [blast EXCEPT !.op = IF blk.closed THEN "seal2" ELSE "seal", !.err = FALSE,
                              !.missing = FALSE,
                              !.ret = <<seal(blk).bytes>>,
                              !.first = IF blast.first = <<>> THEN <<seal(blk).bytes>>
                                        ELSE blast.first]
    /\ UNCHANGED <<bfed, bfailed, bdec, bout>>

\* MultiVariateDecoder(block.seal(), variable_names)
BlkOpenDecoder ==
    /\ bdec = <<>>
    /\ blk.closed
    /\ bdec' = <<NewDecoder(seal(blk).bytes, blk.var_names)>>
    /\ UNCHANGED <<blk, bpre, blast, bfed, bfailed, bout>>

\* decoder.read_point(), called block.count times
BlkRead ==
    /\ bdec # <<>>
    /\ blast.op # "readfail"
    /\ Len(bout) < blk.count
    /\ \E res \in {read_point(bdec[1])} :
           /\ bdec' = <<res.d>>
           /\ bout' = IF res.err THEN bout ELSE Append(bout, res.point)
           /\ blast' = [blast EXCEPT !.op = IF res.err THEN "readfail" ELSE "read",
                                      !.err = res.err, !.missing = FALSE, !.ret = <<>>]
    /\ UNCHANGED <<blk, bpre, bfed, bfailed>>

-----------------------------------------------------------------------------
(* One MultiVariateSeries: insert, flush and query calls *)

\* block_duration_ms of the series
BlockDuration == 100

\* the points offered to insert.  -70, -70, -6 give the delta-of-delta 64;
\* 0 is the first timestamp of the next window; one map lacks "b"
SeriesPoints ==
    { [ts |-> -70, values |-> Values2(V22_5, PosZero)],
      [ts |-> -6, values |-> Values2(V22_6, PosZero)],
      [ts |-> 0, values |-> Values2(V22_6, PosZero)],
      [ts |-> 0, values |-> ValuesOnlyA(V22_5)] }

\* the points offered while the series is filled: one more point in the
\* window of -70 and -6
FillPoints == SeriesPoints \cup { [ts |-> -5, values |-> Values2(V22_5, NegZero)] }

\* the (t_start, t_end) pairs of the query calls
QueryRanges == {<<-100, 99>>, <<-5, 0>>}

\* the pairs used once the series is filled
FinalRanges == {<<-100, 99>>, <<-70, -6>>, <<-5, 0>>, <<1, 50>>}

NoSeriesCall ==
    [op |-> "none", err |-> FALSE, ts |-> 0, created |-> FALSE,
     t_start |-> 0, t_end |-> 0, inserts |-> 0, queries |-> 0, flushes |-> 0,
     stats |-> 0]

SerInit ==
    /\ ser = NewSeries(BlockNames, BlockDuration)
    /\ spre = NewSeries(BlockNames, BlockDuration)
    /\ slast = NoSeriesCall
    /\ sres = <<>>
    /\ sfed = <<>>
    /\ sacc = <<>>
    /\ smade = <<>>

\* series.insert(p.ts, p.values)
SerInsert(p) ==
    /\ \E res \in {insert(ser, p.ts, p.values)} :
           /\ ser' = res.s
           /\ slast' = [slast EXCEPT !.op = "insert", !.err = res.err, !.ts = p.ts,
                                     !.created = res.created,
                                     !.t_start = 0, !.t_end = 0,
                                     !.inserts = slast.inserts + 1]
           /\ sacc' = IF res.err THEN sacc
                      ELSE Append(sacc, [ts |-> p.ts, values |-> p.values,
                                         start |-> res.s.open_block[1].start_timestamp])
           /\ smade' = IF res.created
                       THEN Append(smade, [t |-> p.ts,
                                           start |-> res.s.open_block[1].start_timestamp])
                       ELSE smade
    /\ spre' = ser
    /\ sfed' = Append(sfed, [ts |-> p.ts,
                              complete |-> \A i \in 1..Len(ser.var_names) :
                                              ser.var_names[i] \in DOMAIN p.values])
    /\ sres' = <<>>

\* series.flush()
SerFlush ==
    /\ ser' = flush(ser)
    /\ spre' = ser
    /\ slast' = [slast EXCEPT !.op = "flush", !.err = FALSE, !.created = FALSE,
                              !.ts = 0, !.t_start = 0, !.t_end = 0,
                              !.flushes = slast.flushes + 1]
    /\ sres' = <<>>
    /\ UNCHANGED <<sfed, sacc, smade>>

\* series.query(q[1], q[2])
SerQuery(q) ==
    /\ \E res \in {query(ser, q[1], q[2])} :
           /\ ser' = res.s
           /\ sres' = res.points
           /\ slast' = [slast EXCEPT !.op = "query", !.err = res.err, !.created = FALSE,
                                     !.ts = 0, !.t_start = q[1], !.t_end = q[2],
                                     !.queries = slast.queries + 1]
    /\ spre' = ser
    /\ UNCHANGED <<sfed, sacc, smade>>

\* series.get_compression_stats(); sres holds the dictionary returned
SerStats ==
    /\ \E res \in {get_compression_stats(ser)} :
           /\ ser' = res.s
           /\ sres' = <<res.stats>>
    /\ slast' = [slast EXCEPT !.op = "stats", !.err = FALSE, !.created = FALSE,
                              !.ts = 0, !.t_start = 0, !.t_end = 0,
                              !.stats = slast.stats + 1]
    /\ spre' = ser
    /\ UNCHANGED <<sfed, sacc, smade>>

-----------------------------------------------------------------------------
(* MultiVariateStore *)

\* MultiVariateStore.__init__: "self._series = {}"
NewStore == [k \in {} |-> <<>>]

\* "self._series[series_key] = MultiVariateSeries(...)"
StorePut(st, series_key, s) ==
    [k \in DOMAIN st \cup {series_key} |-> IF k = series_key THEN s ELSE st[k]]

\* create_series without the test for an existing key
create_series_Overwrite(st, series_key, variable_names, block_duration_ms) ==
    [st |-> StorePut(st, series_key, NewSeries(variable_names, block_duration_ms)),
     err |-> FALSE]

\* create_series(series_key, variable_names, block_duration_ms): err when it
\* raises ValueError
create_series(st, series_key, variable_names, block_duration_ms) ==
    IF series_key \in DOMAIN st
    THEN [st |-> st, err |-> TRUE]
    ELSE [st |-> StorePut(st, series_key, NewSeries(variable_names, block_duration_ms)),
          err |-> FALSE]

\* the store after "self._series[series_key].insert(timestamp, values)"
\* returned r
StoreInsertReturn(st, series_key, r) ==
    [st |-> [st EXCEPT ![series_key] = r.s],
     err |-> r.err,
     kind |-> IF r.err THEN "ValueError" ELSE "none"]

\* an insert that creates the series of an unknown key
store_insert_AutoCreate(st, series_key, timestamp, values) ==
    IF series_key \notin DOMAIN st
    THEN [st |-> StorePut(st, series_key, NewSeries(<<"a">>, BlockDuration)),
          err |-> TRUE, kind |-> "KeyError"]
    ELSE StoreInsertReturn(st, series_key, insert(st[series_key], timestamp, values))

\* MultiVariateStore.insert(series_key, timestamp, values): err when it
\* raises, kind the exception
store_insert(st, series_key, timestamp, values) ==
    IF series_key \notin DOMAIN st
    THEN [st |-> st, err |-> TRUE, kind |-> "KeyError"]
    ELSE StoreInsertReturn(st, series_key, insert(st[series_key], timestamp, values))

\* the store after "self._series[series_key].query(t_start, t_end)" returned r
StoreQueryReturn(st, series_key, r) ==
    [st |-> [st EXCEPT ![series_key] = r.s], points |-> r.points, err |-> r.err]

\* MultiVariateStore.query(series_key, t_start, t_end)
store_query(st, series_key, t_start, t_end) ==
    IF series_key \notin DOMAIN st
    THEN [st |-> st, points |-> <<>>, err |-> FALSE]
    ELSE StoreQueryReturn(st, series_key, query(st[series_key], t_start, t_end))

\* flush_all(): "for series in self._series.values(): series.flush()"
flush_all(st) == [k \in DOMAIN st |-> flush(st[k])]

\* get_series(series_key).flush() for a key of the store
store_flush_series(st, series_key) == [st EXCEPT ![series_key] = flush(st[series_key])]

\* list_series()
list_series(st) == DOMAIN st

-----------------------------------------------------------------------------
(* One MultiVariateStore: create_series, insert, query and flush calls *)

\* the series keys used
StoreKeys == {"s1", "s2"}

\* the (series_key, variable_names) pairs offered to create_series
StoreSchemas == { <<"s1", <<"a", "b">>>>, <<"s1", <<"a">>>>, <<"s2", <<"a">>>> }

\* the points offered to insert: the second one lacks "b"
StorePoints ==
    { [ts |-> -70, values |-> Values2(V22_5, PosZero)],
      [ts |-> 0, values |-> ValuesOnlyA(V22_6)] }

\* the range of the query calls
StoreRange == <<-100, 99>>

NoStoreCall ==
    [op |-> "none", key |-> "", err |-> FALSE, kind |-> "none", calls |-> 0]

StoreInit ==
    /\ store = NewStore
    /\ stpre = NewStore
    /\ stlast = NoStoreCall
    /\ stres = <<>>

\* store.create_series(c[1], c[2], BlockDuration)
StoreCreate(c) ==
    /\ stlast.calls < MaxStoreCalls
    /\ \E res \in {create_series(store, c[1], c[2], BlockDuration)} :
           /\ store' = res.st
           /\ stlast' = [op |-> "create_series", key |-> c[1], err |-> res.err,
                         kind |-> IF res.err THEN "ValueError" ELSE "none",
                         calls |-> stlast.calls + 1]
    /\ stpre' = store
    /\ stres' = <<>>

\* store.insert(k, p.ts, p.values)
StoreInsert(k, p) ==
    /\ stlast.calls < MaxStoreCalls
    /\ \E res \in {store_insert(store, k, p.ts, p.values)} :
           /\ store' = res.st
           /\ stlast' = [op |-> "insert", key |-> k, err |-> res.err,
                         kind |-> res.kind, calls |-> stlast.calls + 1]
    /\ stpre' = store
    /\ stres' = <<>>

\* store.query(k, StoreRange[1], StoreRange[2])
StoreQuery(k) ==
    /\ stlast.calls < MaxStoreCalls
    /\ \E res \in {store_query(store, k, StoreRange[1], StoreRange[2])} :
           /\ store' = res.st
           /\ stres' = res.points
           /\ stlast' = [op |-> "query", key |-> k, err |-> res.err,
                         kind |-> IF res.err THEN "error" ELSE "none",
                         calls |-> stlast.calls + 1]
    /\ stpre' = store

\* store.get_series(k).flush() for a key that was created
StoreFlushSeries(k) ==
    /\ stlast.calls < MaxStoreCalls
    /\ k \in DOMAIN store
    /\ store' = store_flush_series(store, k)
    /\ stpre' = store
    /\ stlast' = [op |-> "flush", key |-> k, err |-> FALSE, kind |-> "none",
                  calls |-> stlast.calls + 1]
    /\ stres' = <<>>

\* store.flush_all()
StoreFlushAll ==
    /\ stlast.calls < MaxStoreCalls
    /\ store' = flush_all(store)
    /\ stpre' = store
    /\ stlast' = [op |-> "flush_all", key |-> "", err |-> FALSE, kind |-> "none",
                  calls |-> stlast.calls + 1]
    /\ stres' = <<>>

-----------------------------------------------------------------------------
(* One BitReader over given bytes: any calls *)

NoWriterCall ==
    [op |-> "none", x |-> 0, n |-> 0, err |-> FALSE, ret |-> 0]

NoReaderCall ==
    [op |-> "none", n |-> 0, val |-> 0, err |-> FALSE, kind |-> "none",
     cons |-> 0, calls |-> 0, peeked |-> -1, before |-> -1, idx |-> 0]

BitInit ==
    /\ bw = NewWriter
    /\ bwpre = NewWriter
    /\ bwlast = NoWriterCall
    /\ bwlog = <<>>
    /\ brd = <<>>
    /\ brpre = <<>>
    /\ brlast = NoReaderCall

\* the byte strings handed to BitReader(data)
ReaderData ==
    { <<>>, <<165>>, <<165, 60, 1>>, <<0, 0, 1, 2, 165>>,
      <<255, 255, 255, 255, 255, 255, 255, 254, 165>> }

\* the bits align_to_byte skips
AlignSkip(r) == IF r.bit_pos > 0 THEN 8 - r.bit_pos ELSE 0

RECURSIVE ReadBitCount(_, _)
\* the number of read_bit calls that return in the loop of read_bits(n)
ReadBitCount(r, n) ==
    IF n <= 0 \/ read_bit(r).err THEN 0 ELSE 1 + ReadBitCount(read_bit(r).r, n - 1)

\* one call on the reader: the reader it leaves, the value returned, the
\* exception raised and the bits taken from the stream
ReaderCall(r, op, n) ==
    CASE op = "read_bit" ->
           [r |-> read_bit(r).r, val |-> read_bit(r).bit, err |-> read_bit(r).err,
            kind |-> IF read_bit(r).err THEN "EOFError" ELSE "none",
            used |-> IF read_bit(r).err THEN 0 ELSE 1]
      [] op = "read_bits" ->
           [r |-> read_bits(r, n).r, val |-> read_bits(r, n).val,
            err |-> read_bits(r, n).err,
            kind |-> IF n < 0 THEN "ValueError"
                     ELSE IF read_bits(r, n).err THEN "EOFError" ELSE "none",
            used |-> ReadBitCount(r, n)]
      [] op = "read_signed" ->
           [r |-> read_signed(r, n).r, val |-> read_signed(r, n).val,
            err |-> read_signed(r, n).err,
            kind |-> IF read_signed(r, n).err THEN "EOFError" ELSE "none",
            used |-> ReadBitCount(r, n)]
      [] op = "align_to_byte" ->
           [r |-> reader_align_to_byte(r), val |-> 0, err |-> FALSE, kind |-> "none",
            used |-> AlignSkip(r)]
      [] op = "read_u32" ->
           [r |-> read_u32(r).r, val |-> read_u32(r).val, err |-> read_u32(r).err,
            kind |-> read_u32(r).kind,
            used |-> AlignSkip(r) + (IF read_u32(r).err THEN 0 ELSE 32)]
      [] op = "read_i64" ->
           [r |-> read_i64(r).r, val |-> read_i64(r).val, err |-> read_i64(r).err,
            kind |-> read_i64(r).kind,
            used |-> AlignSkip(r) + (IF read_i64(r).err THEN 0 ELSE 64)]
      [] op = "read_u64" ->
           [r |-> read_u64(r).r, val |-> read_u64(r).val, err |-> read_u64(r).err,
            kind |-> read_u64(r).kind,
            used |-> AlignSkip(r) + (IF read_u64(r).err THEN 0 ELSE 64)]
      [] op = "read_bytes" ->
           [r |-> read_bytes(r, n).r, val |-> read_bytes(r, n).bytes,
            err |-> read_bytes(r, n).err,
            kind |-> IF read_bytes(r, n).err THEN "EOFError" ELSE "none",
            used |-> AlignSkip(r) + (IF read_bytes(r, n).err THEN 0 ELSE 8 * n)]
      [] op = "peek_bit" ->
           [r |-> peek_bit(r).r, val |-> peek_bit(r).bit, err |-> peek_bit(r).err,
            kind |-> IF peek_bit(r).err THEN "EOFError" ELSE "none",
            used |-> 0]

\* the call op(n) on the reader; idx is the place of the mirrored write, 0
\* when there is none
Rd(op, n, idx) ==
    /\ brd # <<>>
    /\ \E res \in {ReaderCall(brd[1], op, n)} :
           /\ brd' = <<res.r>>
           /\ brlast' = [op |-> op, n |-> n, val |-> res.val, err |-> res.err,
                         kind |-> res.kind, cons |-> brlast.cons + res.used,
                         calls |-> brlast.calls + 1,
                         peeked |-> IF op = "peek_bit" /\ ~res.err THEN res.val ELSE -1,
                         before |-> brlast.peeked, idx |-> idx]
    /\ brpre' = brd
    /\ UNCHANGED <<bw, bwpre, bwlast, bwlog>>

\* the widths passed to read_bits
ReadWidths == {-1, 0, 3, 9}

InitReader ==
    /\ TsInit /\ ValInit /\ vmode = "standard" /\ BlkInit /\ SerInit /\ StoreInit
    /\ bw = NewWriter
    /\ bwpre = NewWriter
    /\ bwlast = NoWriterCall
    /\ bwlog = <<>>
    /\ brd \in { <<NewReader(data)>> : data \in ReaderData }
    /\ brpre = brd
    /\ brlast = NoReaderCall

NextReader ==
    \/ brlast.calls < MaxReads /\ Rd("read_bit", 1, 0)
          /\ UNCHANGED <<tsvars, valvars, blkvars, servars, stovars>>
    \/ \E n \in ReadWidths :
          brlast.calls < MaxReads /\ Rd("read_bits", n, 0)
          /\ UNCHANGED <<tsvars, valvars, blkvars, servars, stovars>>
    \/ brlast.calls < MaxReads /\ Rd("read_signed", 3, 0)
          /\ UNCHANGED <<tsvars, valvars, blkvars, servars, stovars>>
    \/ brlast.calls < MaxReads /\ Rd("align_to_byte", 0, 0)
          /\ UNCHANGED <<tsvars, valvars, blkvars, servars, stovars>>
    \/ brlast.calls < MaxReads /\ Rd("read_u32", 0, 0)
          /\ UNCHANGED <<tsvars, valvars, blkvars, servars, stovars>>
    \/ brlast.calls < MaxReads /\ Rd("read_i64", 0, 0)
          /\ UNCHANGED <<tsvars, valvars, blkvars, servars, stovars>>
    \/ brlast.calls < MaxReads /\ Rd("read_u64", 0, 0)
          /\ UNCHANGED <<tsvars, valvars, blkvars, servars, stovars>>
    \/ brlast.calls < MaxReads /\ Rd("read_bytes", 2, 0)
          /\ UNCHANGED <<tsvars, valvars, blkvars, servars, stovars>>
    \/ brlast.calls < MaxReads /\ Rd("peek_bit", 0, 0)
          /\ UNCHANGED <<tsvars, valvars, blkvars, servars, stovars>>

SpecReader == InitReader /\ [][NextReader]_vars

-----------------------------------------------------------------------------
(* One BitWriter: calls, then to_bytes and the mirrored reads *)

\* one call on the writer: the writer it leaves, whether it raised, and the
\* value returned (the offset of reserve_u32).  n is the offset of patch_u32
WriterCall(w, op, x, n) ==
    CASE op = "write_bit" -> [w |-> write_bit(w, x), err |-> FALSE, ret |-> 0]
      [] op = "write_bits" ->
           [w |-> write_bits(w, x, n).w, err |-> write_bits(w, x, n).err, ret |-> 0]
      [] op = "write_signed" ->
           [w |-> write_signed(w, x, n).w, err |-> write_signed(w, x, n).err, ret |-> 0]
      [] op = "align_to_byte" -> [w |-> align_to_byte(w), err |-> FALSE, ret |-> 0]
      [] op = "write_u32" -> [w |-> write_u32(w, x), err |-> FALSE, ret |-> 0]
      [] op = "write_i64" -> [w |-> write_i64(w, x), err |-> FALSE, ret |-> 0]
      [] op = "write_u64" -> [w |-> write_u64(w, x), err |-> FALSE, ret |-> 0]
      [] op = "reserve_u32" ->
           [w |-> reserve_u32(w).w, err |-> FALSE, ret |-> reserve_u32(w).offset]
      [] op = "patch_u32" ->
           [w |-> patch_u32(w, n, x).w, err |-> patch_u32(w, n, x).err, ret |-> 0]

\* the calls that returned, with the value a later read has to give and
\* bit_length() after the call: a patch_u32 on a reserved field replaces the
\* 0 of that field
Logged(log, op, x, n, res) ==
    IF res.err THEN log
    ELSE IF op = "patch_u32"
         THEN [i \in 1..Len(log) |->
                 IF log[i].op = "reserve_u32" /\ log[i].off = n
                 THEN [log[i] EXCEPT !.x = x] ELSE log[i]]
         ELSE Append(log, [op |-> op, x |-> x, n |-> n, off |-> res.ret,
                           len |-> bit_length(res.w)])

\* the call op(x, n) on the writer
Wr(op, x, n) ==
    /\ brd = <<>>
    /\ Len(bwlog) < MaxBitOps
    /\ \E res \in {WriterCall(bw, op, x, n)} :
           /\ bw' = res.w
           /\ bwlast' = [op |-> op, x |-> x, n |-> n, err |-> res.err, ret |-> res.ret]
           /\ bwlog' = Logged(bwlog, op, x, n, res)
    /\ bwpre' = bw
    /\ UNCHANGED <<brd, brpre, brlast>>

\* the (x, n) pairs passed to write_bits
WriteBitsArgs == { <<14, 3>>, <<262, 9>>, <<6, 0>>, <<5, -1>>, <<-1, 3>> }

\* the (x, bits) pairs passed to write_signed
WriteSignedArgs == { <<-4, 3>>, <<3, 3>>, <<4, 3>>, <<-5, 3>>, <<0, 0>> }

\* the offsets passed to patch_u32: the ones reserve_u32 returned, -1, and
\* one that leaves 3 bytes
PatchOffsets(w, log) ==
    {-1, Len(w.buf) - 3} \cup { log[i].off : i \in { j \in 1..Len(log) : log[j].op = "reserve_u32" } }

\* data = writer.to_bytes(); BitReader(data)
BitSeal ==
    /\ brd = <<>>
    /\ bw' = to_bytes(bw).w
    /\ bwpre' = bw
    /\ bwlast' = [op |-> "to_bytes", x |-> 0, n |-> 0, err |-> FALSE,
                  ret |-> Len(to_bytes(bw).bytes)]
    /\ brd' = <<NewReader(to_bytes(bw).bytes)>>
    /\ brpre' = <<NewReader(to_bytes(bw).bytes)>>
    /\ UNCHANGED <<bwlog, brlast>>

\* the read that mirrors a write
MirrorOp(op) ==
    CASE op = "write_bit" -> "read_bit"
      [] op = "write_bits" -> "read_bits"
      [] op = "write_signed" -> "read_signed"
      [] op = "align_to_byte" -> "align_to_byte"
      [] op = "write_u32" -> "read_u32"
      [] op = "write_i64" -> "read_i64"
      [] op = "write_u64" -> "read_u64"
      [] op = "reserve_u32" -> "read_u32"

\* the next read of the mirrored sequence
BitMirror ==
    /\ brlast.idx < Len(bwlog)
    /\ ~brlast.err
    /\ Rd(MirrorOp(bwlog[brlast.idx + 1].op),
          IF bwlog[brlast.idx + 1].op = "write_bit" THEN 1 ELSE bwlog[brlast.idx + 1].n,
          brlast.idx + 1)

InitBits == TsInit /\ ValInit /\ vmode = "standard" /\ BlkInit /\ SerInit /\ StoreInit /\ BitInit

NextBits ==
    \/ \E b \in {0, 1} :
          Wr("write_bit", b, 0)
          /\ UNCHANGED <<tsvars, valvars, blkvars, servars, stovars>>
    \/ \E a \in WriteBitsArgs :
          Wr("write_bits", a[1], a[2])
          /\ UNCHANGED <<tsvars, valvars, blkvars, servars, stovars>>
    \/ Wr("align_to_byte", 0, 0)
          /\ UNCHANGED <<tsvars, valvars, blkvars, servars, stovars>>
    \/ BitSeal /\ UNCHANGED <<tsvars, valvars, blkvars, servars, stovars>>
    \/ BitMirror /\ UNCHANGED <<tsvars, valvars, blkvars, servars, stovars>>

SpecBits == InitBits /\ [][NextBits]_vars

-----------------------------------------------------------------------------
(* One BitWriter: bits, signed fields, alignment and byte-aligned fields *)

InitBytes == InitBits

NextBytes ==
    \/ Wr("write_bit", 1, 0)
          /\ UNCHANGED <<tsvars, valvars, blkvars, servars, stovars>>
    \/ Wr("write_bits", 14, 3)
          /\ UNCHANGED <<tsvars, valvars, blkvars, servars, stovars>>
    \/ \E a \in WriteSignedArgs :
          Wr("write_signed", a[1], a[2])
          /\ UNCHANGED <<tsvars, valvars, blkvars, servars, stovars>>
    \/ Wr("align_to_byte", 0, 0)
          /\ UNCHANGED <<tsvars, valvars, blkvars, servars, stovars>>
    \/ Wr("write_u32", 66051, 0)
          /\ UNCHANGED <<tsvars, valvars, blkvars, servars, stovars>>
    \/ Wr("write_i64", -2, 0)
          /\ UNCHANGED <<tsvars, valvars, blkvars, servars, stovars>>
    \/ Wr("write_u64", V22_5, 0)
          /\ UNCHANGED <<tsvars, valvars, blkvars, servars, stovars>>
    \/ Wr("reserve_u32", 0, 0)
          /\ UNCHANGED <<tsvars, valvars, blkvars, servars, stovars>>
    \/ \E off \in PatchOffsets(bw, bwlog) :
          Wr("patch_u32", 66051, off)
          /\ UNCHANGED <<tsvars, valvars, blkvars, servars, stovars>>
    \/ BitSeal /\ UNCHANGED <<tsvars, valvars, blkvars, servars, stovars>>
    \/ BitMirror /\ UNCHANGED <<tsvars, valvars, blkvars, servars, stovars>>

SpecBytes == InitBytes /\ [][NextBytes]_vars

-----------------------------------------------------------------------------
(* One BitWriter: some write_bit calls, one write_signed, then the reads *)

\* every (x, bits) with bits in 1..MaxSignedWidth and x in the range of bits
SignedArgs ==
    UNION { { <<x, bits>> : x \in (0 - 2^(bits - 1))..(2^(bits - 1) - 1) } :
            bits \in 1..MaxSignedWidth }

\* only write_bit calls were made so far
OnlyBitsWritten == \A i \in 1..Len(bwlog) : bwlog[i].op = "write_bit"

InitSigned == InitBits

NextSigned ==
    \/ \E b \in {0, 1} :
          OnlyBitsWritten /\ Len(bwlog) < MaxBitOps - 1 /\ Wr("write_bit", b, 0)
          /\ UNCHANGED <<tsvars, valvars, blkvars, servars, stovars>>
    \/ \E a \in SignedArgs :
          OnlyBitsWritten /\ Wr("write_signed", a[1], a[2])
          /\ UNCHANGED <<tsvars, valvars, blkvars, servars, stovars>>
    \/ BitSeal /\ UNCHANGED <<tsvars, valvars, blkvars, servars, stovars>>
    \/ BitMirror /\ UNCHANGED <<tsvars, valvars, blkvars, servars, stovars>>

SpecSigned == InitSigned /\ [][NextSigned]_vars

-----------------------------------------------------------------------------
(* Specifications *)

\* the timestamp codec alone
InitTs == TsInit /\ ValInit /\ vmode = "standard" /\ BlkInit /\ SerInit /\ StoreInit /\ BitInit

NextTs ==
    \/ \E t \in TsValues : TsAdd(t) /\ UNCHANGED <<valvars, blkvars, servars, stovars, bitvars>>
    \/ TsFinish /\ UNCHANGED <<valvars, blkvars, servars, stovars, bitvars>>
    \/ TsRead /\ UNCHANGED <<valvars, blkvars, servars, stovars, bitvars>>

SpecTs == InitTs /\ [][NextTs]_vars

\* the value codec alone, in either mode
InitVal == TsInit /\ ValInit /\ BlkInit /\ SerInit /\ StoreInit /\ BitInit

NextVal ==
    \/ \E v \in ValPatterns : ValAdd(v) /\ UNCHANGED <<tsvars, blkvars, servars, stovars, bitvars>>
    \/ ValFinish /\ UNCHANGED <<tsvars, blkvars, servars, stovars, bitvars>>
    \/ ValRead /\ UNCHANGED <<tsvars, blkvars, servars, stovars, bitvars>>

SpecVal == InitVal /\ [][NextVal]_vars

\* one multivariate block and its decoder
InitBlock == TsInit /\ ValInit /\ vmode = "standard" /\ BlkInit /\ SerInit /\ StoreInit /\ BitInit

NextBlock ==
    \/ \E p \in BlockPoints : BlkAdd(p) /\ UNCHANGED <<tsvars, valvars, servars, stovars, bitvars>>
    \/ BlkSeal /\ UNCHANGED <<tsvars, valvars, servars, stovars, bitvars>>
    \/ BlkOpenDecoder /\ UNCHANGED <<tsvars, valvars, servars, stovars, bitvars>>
    \/ BlkRead /\ UNCHANGED <<tsvars, valvars, servars, stovars, bitvars>>

SpecBlock == InitBlock /\ [][NextBlock]_vars

\* one multivariate series under insert, flush and query calls in any order
Init == TsInit /\ ValInit /\ vmode = "standard" /\ BlkInit /\ SerInit /\ StoreInit /\ BitInit

Next ==
    \/ \E p \in SeriesPoints :
          slast.inserts < MaxInserts /\ SerInsert(p)
          /\ UNCHANGED <<tsvars, valvars, blkvars, stovars, bitvars>>
    \/ slast.flushes < MaxFlushes /\ SerFlush /\ UNCHANGED <<tsvars, valvars, blkvars, stovars, bitvars>>
    \/ \E q \in QueryRanges :
          slast.queries < MaxQueries /\ SerQuery(q)
          /\ UNCHANGED <<tsvars, valvars, blkvars, stovars, bitvars>>

Spec == Init /\ [][Next]_vars

\* one multivariate series that is filled by insert calls and then queried
InitFill == Init

NextFill ==
    \/ \E p \in FillPoints :
          slast.queries = 0 /\ slast.inserts < MaxFill /\ SerInsert(p)
          /\ UNCHANGED <<tsvars, valvars, blkvars, stovars, bitvars>>
    \/ \E q \in FinalRanges :
          slast.queries = 0 /\ SerQuery(q) /\ UNCHANGED <<tsvars, valvars, blkvars, stovars, bitvars>>

SpecFill == InitFill /\ [][NextFill]_vars

\* one multivariate series under insert, flush and get_compression_stats
\* calls in any order
InitStats == Init

NextStats ==
    \/ \E p \in SeriesPoints :
          slast.inserts < MaxInserts /\ SerInsert(p)
          /\ UNCHANGED <<tsvars, valvars, blkvars, stovars, bitvars>>
    \/ slast.flushes < MaxFlushes /\ SerFlush /\ UNCHANGED <<tsvars, valvars, blkvars, stovars, bitvars>>
    \/ slast.stats < MaxStats /\ SerStats /\ UNCHANGED <<tsvars, valvars, blkvars, stovars, bitvars>>

SpecStats == InitStats /\ [][NextStats]_vars

-----------------------------------------------------------------------------
(* A series with the one variable "temp", filled, flushed and decoded *)

\* the default block_duration_ms
DefaultBlockDuration == 7200000

TempValues(v) == [n \in {"temp"} |-> v]

\* the points offered: the timestamps 1000, 1010, 1020 with 22.5 or 22.6
TempPoints ==
    { [ts |-> t, values |-> TempValues(v)] : t \in {1000, 1010, 1020}, v \in {V22_5, V22_6} }

TempInit ==
    /\ ser = NewSeries(<<"temp">>, DefaultBlockDuration)
    /\ spre = NewSeries(<<"temp">>, DefaultBlockDuration)
    /\ slast = NoSeriesCall
    /\ sres = <<>>
    /\ sfed = <<>>
    /\ sacc = <<>>
    /\ smade = <<>>

\* MultiVariateDecoder(data, variable_names) on the first closed block
TempOpenDecoder ==
    /\ bdec = <<>>
    /\ ser.closed_blocks # <<>>
    /\ bdec' = <<NewDecoder(ser.closed_blocks[1].data, ser.var_names)>>
    /\ UNCHANGED <<blk, bpre, blast, bfed, bfailed, bout>>

\* decoder.read_point(), called count times
TempRead ==
    /\ bdec # <<>>
    /\ blast.op # "readfail"
    /\ Len(bout) < ser.closed_blocks[1].count
    /\ \E res \in {read_point(bdec[1])} :
           /\ bdec' = <<res.d>>
           /\ bout' = IF res.err THEN bout ELSE Append(bout, res.point)
           /\ blast' = [blast EXCEPT !.op = IF res.err THEN "readfail" ELSE "read",
                                      !.err = res.err]
    /\ UNCHANGED <<blk, bpre, bfed, bfailed>>

InitTemp == TsInit /\ ValInit /\ vmode = "standard" /\ BlkInit /\ TempInit /\ StoreInit /\ BitInit

NextTemp ==
    \/ \E p \in TempPoints :
          ser.closed_blocks = <<>> /\ slast.inserts < MaxTemp /\ SerInsert(p)
          /\ UNCHANGED <<tsvars, valvars, blkvars, stovars, bitvars>>
    \/ slast.flushes = 0 /\ SerFlush /\ UNCHANGED <<tsvars, valvars, blkvars, stovars, bitvars>>
    \/ TempOpenDecoder /\ UNCHANGED <<tsvars, valvars, servars, stovars, bitvars>>
    \/ TempRead /\ UNCHANGED <<tsvars, valvars, servars, stovars, bitvars>>

SpecTemp == InitTemp /\ [][NextTemp]_vars

-----------------------------------------------------------------------------
(* The store alone *)

InitStore == TsInit /\ ValInit /\ vmode = "standard" /\ BlkInit /\ SerInit /\ StoreInit /\ BitInit

NextStore ==
    \/ \E c \in StoreSchemas :
          StoreCreate(c) /\ UNCHANGED <<tsvars, valvars, blkvars, servars, bitvars>>
    \/ \E k \in StoreKeys, p \in StorePoints :
          StoreInsert(k, p) /\ UNCHANGED <<tsvars, valvars, blkvars, servars, bitvars>>
    \/ \E k \in StoreKeys :
          StoreQuery(k) /\ UNCHANGED <<tsvars, valvars, blkvars, servars, bitvars>>
    \/ \E k \in StoreKeys :
          StoreFlushSeries(k) /\ UNCHANGED <<tsvars, valvars, blkvars, servars, bitvars>>
    \/ StoreFlushAll /\ UNCHANGED <<tsvars, valvars, blkvars, servars, bitvars>>

SpecStore == InitStore /\ [][NextStore]_vars

-----------------------------------------------------------------------------
(* Properties *)

StrictlyIncreasing(s) == \A i \in 1..(Len(s) - 1) : s[i] < s[i + 1]

\* C2: for a strictly increasing sequence of timestamps every add_timestamp
\* call succeeds, and the read_timestamp calls on the produced bytes succeed
\* and return the timestamps that were fed, in order.
C2_TimestampRoundTrip ==
    StrictlyIncreasing(tfed) =>
        /\ ~tlast.err
        /\ tphase # "failed"
        /\ \A i \in 1..Len(tout) : tout[i] = tfed[i]

\* C3: in either encoder mode, the read_value calls on the produced bytes
\* never fail and return the 64-bit patterns that were encoded, in order
\* (so 0.0 and -0.0, NaN and the infinities come back as they went in).
C3_ValueRoundTrip ==
    /\ vphase # "failed"
    /\ Len(vout) <= Len(vfed)
    /\ \A i \in 1..Len(vout) : vout[i] = vfed[i]

\* a run of -0.0 followed by 0.0 and a NaN has been encoded in verification
\* mode and read back completely
C3_Witness ==
    /\ vmode = "verification"
    /\ vphase = "read"
    /\ Len(vfed) >= 3
    /\ vfed[1] = NegZero /\ vfed[2] = NegZero /\ vfed[3] = PosZero
    /\ vout = vfed

FitsTwos(x, n) == (0 - 2^(n - 1)) <= x /\ x <= 2^(n - 1) - 1

\* the code length of a delta-of-delta by its two's-complement width
TierBits(dod) ==
    IF dod = 0 THEN 1
    ELSE IF FitsTwos(dod, 7) THEN 9
    ELSE IF FitsTwos(dod, 9) THEN 12
    ELSE IF FitsTwos(dod, 12) THEN 16
    ELSE 36

\* C7: the third and every later add_timestamp call succeeds and appends
\* exactly the number of bits of the tier that the two's-complement width of
\* its delta-of-delta selects (1, 9, 12, 16 or 36).
C7_TierByTwosComplementWidth ==
    (tlast.called /\ tlast.count >= 2) =>
        (~tlast.err /\ tlast.grew = TierBits(tlast.dod))

\* C4: when every add call on the block returned normally, the read_point
\* calls on the sealed bytes (same variable names, same order) never fail and
\* return the added points, timestamps and per-variable values, in the order
\* they were added.
C4_BlockRoundTrip ==
    ~bfailed =>
        /\ blast.op # "readfail"
        /\ Len(bout) <= Len(bfed)
        /\ \A i \in 1..Len(bout) : bout[i] = bfed[i]

\* three or more points whose "a" and "b" values change at different points
\* have been added, sealed and all read back
C4_Witness ==
    /\ ~bfailed
    /\ bdec # <<>>
    /\ Len(bfed) >= 3
    /\ bout = bfed
    /\ bfed[1].values["a"] # bfed[2].values["a"]
    /\ bfed[1].values["b"] = bfed[2].values["b"]
    /\ bfed[2].values["b"] # bfed[3].values["b"]

\* C5: an add call that raises leaves the bits written so far, the point
\* count and the state of every codec of the block as they were before the
\* call.
C5_FailedAddLeavesBlockUntouched ==
    (blast.op = "add" /\ blast.err) =>
        /\ blk.writer = bpre.writer
        /\ blk.count = bpre.count
        /\ blk.ts_encoder = bpre.ts_encoder
        /\ blk.val_encoders = bpre.val_encoders

NonDecreasing(f) == \A i \in 1..(Len(f) - 1) : f[i].ts <= f[i + 1].ts

\* the accepted points with t_start <= ts <= t_end, in insertion order
AcceptedIn(t_start, t_end) ==
    LET InRange(p) == t_start <= p.ts /\ p.ts <= t_end
        sel == SelectSeq(sacc, InRange)
    IN  [i \in 1..Len(sel) |-> [ts |-> sel[i].ts, values |-> sel[i].values]]

\* C1: after insert calls with non-decreasing timestamps and complete value
\* maps, query(a, b) does not fail and returns exactly the points the series
\* accepted with a <= timestamp <= b, in insertion order.
C1_QueryReturnsInsertedPoints ==
    (slast.op = "query" /\ NonDecreasing(sfed) /\ \A i \in 1..Len(sfed) : sfed[i].complete) =>
        (~slast.err /\ sres = AcceptedIn(slast.t_start, slast.t_end))

\* C6: an insert call that raises leaves the closed-block list, the presence,
\* start_timestamp and count of the open block, total_points and num_blocks
\* as they were before the call.
C6_FailedInsertLeavesSeriesUnchanged ==
    (slast.op = "insert" /\ slast.err) =>
        /\ ser.closed_blocks = spre.closed_blocks
        /\ (ser.open_block = <<>>) <=> (spre.open_block = <<>>)
        /\ (ser.open_block # <<>> /\ spre.open_block # <<>>) =>
               /\ ser.open_block[1].start_timestamp = spre.open_block[1].start_timestamp
               /\ ser.open_block[1].count = spre.open_block[1].count
        /\ total_points(ser) = total_points(spre)
        /\ num_blocks(ser) = num_blocks(spre)

InWindow(timestamp, start) == start <= timestamp /\ timestamp < start + BlockDuration

\* C8: when the timestamps of the insert calls are non-decreasing, every
\* accepted point lies in the window [start, start + D) of the block that
\* took it, whatever flush and query calls came in between.
C8_PointsInsideBlockWindow ==
    NonDecreasing(sfed) => \A i \in 1..Len(sacc) : InWindow(sacc[i].ts, sacc[i].start)

\* a point on the first timestamp of its window was accepted after the
\* previous window had been closed
C8_Witness ==
    /\ NonDecreasing(sfed)
    /\ Len(ser.closed_blocks) >= 1
    /\ \E i \in 1..Len(sacc) : sacc[i].ts = sacc[i].start
    /\ \E i \in 1..Len(sacc) : sacc[i].ts > sacc[i].start

\* C9: the start_timestamp of every closed block and of the open block is a
\* multiple of D, and every block got, when it was created by an insert with
\* timestamp t, the start that is the multiple of D with start <= t < start + D.
C9_BlockStartAligned ==
    /\ \A i \in 1..Len(ser.closed_blocks) :
          /\ ser.closed_blocks[i].start % BlockDuration = 0
          /\ \E j \in 1..Len(smade) : smade[j].start = ser.closed_blocks[i].start
    /\ ser.open_block # <<>> =>
          /\ ser.open_block[1].start_timestamp % BlockDuration = 0
          /\ smade[Len(smade)].start = ser.open_block[1].start_timestamp
    /\ \A j \in 1..Len(smade) :
          /\ smade[j].start % BlockDuration = 0
          /\ InWindow(smade[j].t, smade[j].start)

\* a block created by a negative timestamp has been closed and another block
\* is open
C9_Witness ==
    /\ Len(ser.closed_blocks) >= 1
    /\ ser.open_block # <<>>
    /\ \E j \in 1..Len(smade) : smade[j].t < 0 /\ smade[j].start < smade[j].t

\* C10: an insert whose timestamp lies outside the window of the open block,
\* on either side, opens a new block, so that no accepted point is in a block
\* whose window does not contain it.
C10_NewBlockWheneverOutsideWindow ==
    /\ (slast.op = "insert" /\ spre.open_block # <<>>
            /\ ~InWindow(slast.ts, spre.open_block[1].start_timestamp))
          => slast.created
    /\ \A i \in 1..Len(sacc) : InWindow(sacc[i].ts, sacc[i].start)

\* C11: over insert, flush and query calls the closed-block list only grows
\* at its end: every (start, count, bytes) tuple in the list stays at its
\* index with the same contents, so a sealed block takes no further point.
C11_ClosedBlocksOnlyAppended ==
    [][/\ Len(ser'.closed_blocks) >= Len(ser.closed_blocks)
       /\ \A i \in 1..Len(ser.closed_blocks) :
             ser'.closed_blocks[i] = ser.closed_blocks[i]]_vars

\* a second block has been closed behind an earlier one, and a call was made
\* after that
C11_Witness ==
    /\ Len(ser.closed_blocks) >= 2
    /\ Len(spre.closed_blocks) >= 2
    /\ slast.op \in {"insert", "query"}

\* C12: an add call on a sealed block, or with a value map that lacks a
\* variable of the block, raises and leaves the whole block as it was: no bit
\* appended, count unchanged, start_timestamp not set.
C12_RejectedAddWritesNothing ==
    (blast.op = "add" /\ (bpre.closed \/ blast.missing)) =>
        /\ blast.err
        /\ blk = bpre

\* the first add call on a fresh block came without the variable "b"
C12_Witness ==
    /\ blast.op = "add" /\ blast.missing
    /\ ~bpre.closed /\ bpre.count = 0 /\ bpre.start_timestamp = None
    /\ blk.start_timestamp = None

\* C13: the first seal call sets closed and returns the bytes of the writer,
\* leaving count and start_timestamp; every later seal call returns the same
\* bytes as the first and leaves the block as it was.
C13_SealIdempotent ==
    /\ blast.op = "seal" =>
          /\ blk.closed
          /\ blast.ret = <<to_bytes(bpre.writer).bytes>>
          /\ blast.first = blast.ret
          /\ blk.compressed_data = blast.ret
          /\ blk.count = bpre.count
          /\ blk.start_timestamp = bpre.start_timestamp
    /\ blast.op = "seal2" =>
          /\ blast.ret = blast.first
          /\ blk = bpre

\* a block holding two or more points has been sealed a second time
C13_Witness ==
    /\ blast.op = "seal2"
    /\ blk.count >= 2
    /\ Len(blast.ret[1]) > 16

\* the points (1000, 22.5), (1010, 22.5), (1020, 22.6) were inserted in this
\* order, the block was sealed and its three points have been read
TempScenarioRead ==
    /\ Len(sacc) = 3 /\ Len(sfed) = 3
    /\ sacc[1].ts = 1000 /\ sacc[1].values = TempValues(V22_5)
    /\ sacc[2].ts = 1010 /\ sacc[2].values = TempValues(V22_5)
    /\ sacc[3].ts = 1020 /\ sacc[3].values = TempValues(V22_6)
    /\ bdec # <<>>
    /\ Len(bout) = 3

TempScenarioDecoded ==
    /\ blast.op # "readfail"
    /\ bout = <<[ts |-> 1000, values |-> TempValues(V22_5)],
                [ts |-> 1010, values |-> TempValues(V22_5)],
                [ts |-> 1020, values |-> TempValues(V22_6)]>>

\* C14 as stated: the three points decode back and bits_remaining of the
\* reader over the sealed bytes is 0 after the third point.
C14_ScenarioLeavesNoBits ==
    TempScenarioRead =>
        (TempScenarioDecoded /\ bits_remaining(bdec[1].reader) = 0)

\* C14 amended: the three points decode back and bits_remaining is 5 after
\* the third point, the zero bits that pad the 251 encoded bits to 32 bytes.
C14_ScenarioLeavesPadding ==
    TempScenarioRead =>
        /\ TempScenarioDecoded
        /\ Len(ser.closed_blocks[1].data) = 32
        /\ bits_remaining(bdec[1].reader) = 5

\* the scenario has been run to its end
C14_Witness == TempScenarioRead /\ ser.closed_blocks[1].count = 3

\* the code length the module's docstring gives for a delta-of-delta
DocumentedBits(dod) ==
    IF dod = 0 THEN 1
    ELSE IF -63 <= dod /\ dod <= 64 THEN 9
    ELSE IF -255 <= dod /\ dod <= 256 THEN 12
    ELSE IF -2047 <= dod /\ dod <= 2048 THEN 16
    ELSE 36

\* C15: the third and every later add_timestamp call succeeds and appends
\* the number of bits documented for the range of its delta-of-delta
\* ([-63, 64]: 9, [-255, 256]: 12, [-2047, 2048]: 16, otherwise 36), and
\* read_timestamp returns the timestamps that were fed.
C15_DocumentedRangesEncodable ==
    /\ (tlast.called /\ tlast.count >= 2) =>
           (~tlast.err /\ tlast.grew = DocumentedBits(tlast.dod))
    /\ tphase # "failed"
    /\ \A i \in 1..Len(tout) : tout[i] = tfed[i]

\* t[i] = t0 + i*k
Periodic(s) == \A i \in 3..Len(s) : s[i] - s[i - 1] = s[2] - s[1]

\* C16: while the timestamps fed are periodic, the first and the second
\* add_timestamp call append 64 bits each and every later call appends
\* exactly 1 bit, so n timestamps take 128 + (n - 2) bits.
C16_PeriodicTimestampsOneBit ==
    (tlast.called /\ Periodic(tfed)) =>
        /\ ~tlast.err
        /\ tlast.grew = IF tlast.count >= 2 THEN 1 ELSE 64
        /\ (tphase = "write" /\ Len(tfed) >= 2) => bit_length(tw) = 128 + (Len(tfed) - 2)

\* the timestamps 0, 1, 2 have been fed
C16_Witness ==
    /\ tphase = "write"
    /\ tfed = <<0, 1, 2>>
    /\ tlast.count = 2 /\ tlast.grew = 1

\* C17: an encoder call, in either mode, whose value has the 64-bit pattern
\* of the previous value appends exactly one bit, a 0, and leaves
\* prev_leading and prev_trailing as they were.
C17_RepeatedValueOneBit ==
    (vlast.called /\ vlast.same) =>
        /\ vlast.grew = 1
        /\ vlast.bit = 0
        /\ vphase = "write" =>
               /\ venc.prev_leading = vlast.prev_leading
               /\ venc.prev_trailing = vlast.prev_trailing

\* a value was repeated after a window had been stored
C17_Witness ==
    /\ vphase = "write"
    /\ vlast.called /\ vlast.same
    /\ vlast.prev_leading # 255
    /\ Len(vfed) >= 3 /\ vfed[Len(vfed)] # PosZero

\* C18: a MultiVariateStore insert or query that names a series key that was
\* never created raises, and creates no series.
C18_UnknownKeyRaises ==
    (stlast.op \in {"insert", "query"} /\ stlast.key \notin DOMAIN stpre) =>
        /\ stlast.err
        /\ store = stpre

\* C18 as the code has it: insert on an unknown key raises KeyError; query
\* on an unknown key raises nothing and returns the empty list, as it does
\* for a series with no point in the range; neither creates a series.
C18_UnknownKeyInsertRaisesQueryEmpty ==
    /\ (stlast.op = "insert" /\ stlast.key \notin DOMAIN stpre) =>
          /\ stlast.err
          /\ stlast.kind = "KeyError"
          /\ store = stpre
    /\ (stlast.op = "query" /\ stlast.key \notin DOMAIN stpre) =>
          /\ ~stlast.err
          /\ stres = <<>>
          /\ store = stpre

\* query("s2") was called on a store that holds only "s1", with one point
C18_Witness ==
    /\ stlast.op = "query"
    /\ stlast.key = "s2"
    /\ DOMAIN stpre = {"s1"}
    /\ DOMAIN store = {"s1"}
    /\ total_points(store["s1"]) = 1
    /\ stlast.calls = 3

\* C19: create_series on a key that exists raises and leaves the registry as
\* it was: the same keys, and for every key the same series with its variable
\* names, open block and closed blocks.  create_series on a new key adds that
\* one key and leaves every other series as it was, so no key is held twice.
C19_DuplicateCreateChangesNothing ==
    stlast.op = "create_series" =>
        IF stlast.key \in DOMAIN stpre
        THEN /\ stlast.err
             /\ list_series(store) = list_series(stpre)
             /\ \A k \in DOMAIN stpre :
                   /\ store[k].var_names = stpre[k].var_names
                   /\ total_points(store[k]) = total_points(stpre[k])
                   /\ store[k] = stpre[k]
        ELSE /\ ~stlast.err
             /\ list_series(store) = list_series(stpre) \cup {stlast.key}
             /\ Cardinality(list_series(store)) = Cardinality(list_series(stpre)) + 1
             /\ \A k \in DOMAIN stpre : store[k] = stpre[k]

\* create_series("s1", ...) raised on a store whose series "s1" has the
\* variables a and b, one closed block of one point and an open block
C19_Witness ==
    /\ stlast.op = "create_series"
    /\ stlast.key = "s1"
    /\ stlast.err
    /\ "s1" \in DOMAIN stpre
    /\ stpre["s1"].var_names = <<"a", "b">>
    /\ Len(stpre["s1"].closed_blocks) = 1
    /\ stpre["s1"].open_block # <<>>
    /\ total_points(stpre["s1"]) = 1

\* what flush() has to leave of the series pre: no open block, the same
\* total_points, the closed list as it was, followed by the tuple of the open
\* block when that block held a point; nothing changes without an open block
Flushed(pre, post) ==
    /\ post.open_block = <<>>
    /\ post.var_names = pre.var_names
    /\ total_points(post) = total_points(pre)
    /\ \A i \in 1..Len(pre.closed_blocks) : post.closed_blocks[i] = pre.closed_blocks[i]
    /\ IF pre.open_block # <<>> /\ pre.open_block[1].count >= 1
       THEN /\ Len(post.closed_blocks) = Len(pre.closed_blocks) + 1
            /\ post.closed_blocks[Len(post.closed_blocks)].start
                   = pre.open_block[1].start_timestamp
            /\ post.closed_blocks[Len(post.closed_blocks)].count
                   = pre.open_block[1].count
            /\ post.closed_blocks[Len(post.closed_blocks)].data
                   = to_bytes(pre.open_block[1].writer).bytes
       ELSE Len(post.closed_blocks) = Len(pre.closed_blocks)
    /\ pre.open_block = <<>> => post = pre

\* C20: after flush() the series has no open block, total_points is
\* unchanged, and the closed list has grown by the one (start, count, bytes)
\* tuple of the open block if that block held a point and by nothing
\* otherwise; flush without an open block changes nothing; after flush_all no
\* series of the store has an open block.
C20_FlushSealsOpenBlock ==
    /\ stlast.op = "flush" =>
          /\ DOMAIN store = DOMAIN stpre
          /\ Flushed(stpre[stlast.key], store[stlast.key])
          /\ \A k \in DOMAIN stpre \ {stlast.key} : store[k] = stpre[k]
    /\ stlast.op = "flush_all" =>
          /\ DOMAIN store = DOMAIN stpre
          /\ \A k \in DOMAIN store : Flushed(stpre[k], store[k])

\* flush_all was called on a store with two series: "s1" had an open block
\* without a point, "s2" an open block with one point
C20_Witness ==
    /\ stlast.op = "flush_all"
    /\ DOMAIN stpre = {"s1", "s2"}
    /\ stpre["s1"].open_block # <<>>
    /\ stpre["s1"].open_block[1].count = 0
    /\ stpre["s2"].open_block # <<>>
    /\ stpre["s2"].open_block[1].count = 1
    /\ Len(store["s1"].closed_blocks) = 0
    /\ Len(store["s2"].closed_blocks) = 1

\* C21: read_u32, read_i64 and read_u64 called with fewer than 4 / 8 / 8
\* bytes left after alignment raise the end-of-stream error, the kind
\* read_bit raises on exhaustion.
C21_ShortFixedWidthReadIsEndOfStream ==
    (/\ brlast.op \in {"read_u32", "read_i64", "read_u64"}
     /\ Len(brd[1].data) - reader_align_to_byte(brpre[1]).byte_pos
            < (IF brlast.op = "read_u32" THEN 4 ELSE 8)) =>
        /\ brlast.err
        /\ brlast.kind = "EOFError"

\* the bits of the data behind the cursor of r
BitsLeft(r) == 8 * Len(r.data) - (8 * r.byte_pos + r.bit_pos)

\* C22: read_bit, read_bits(n) and read_signed(n) raise the end-of-stream
\* error when they ask for a bit behind the last bit of the data; no bit is
\* made up.
C22_ReadPastEndRaises ==
    (/\ brlast.op \in {"read_bit", "read_bits", "read_signed"}
     /\ brlast.n >= 1
     /\ BitsLeft(brpre[1]) < brlast.n) =>
        /\ brlast.err
        /\ brlast.kind = "EOFError"
        /\ BitsLeft(brd[1]) = 0

\* read_bits(3) was called with two bits left of one byte, and raised
C22_Witness ==
    /\ brlast.op = "read_bits"
    /\ brlast.n = 3
    /\ Len(brpre[1].data) = 1
    /\ brpre[1].byte_pos = 0
    /\ brpre[1].bit_pos = 6
    /\ brlast.err
    /\ brlast.kind = "EOFError"

\* every bit the writer holds: the flushed bytes, then the bits of _cur
WriterBits(w) == BytesToBits(w.buf) \o IntBits(w.cur, w.nbits)

\* C23: write_signed(x, bits) raises when x is outside
\* [-2^(bits-1), 2^(bits-1)-1] and then leaves bit_length() and the buffer as
\* they were; for x inside it appends the bits of x (x >= 0) or of
\* 2^bits + x (x < 0), most significant first.
C23_WriteSignedChecksBeforeWriting ==
    bwlast.op = "write_signed" =>
        IF bwlast.n >= 1 /\ 0 - 2^(bwlast.n - 1) <= bwlast.x
                         /\ bwlast.x <= 2^(bwlast.n - 1) - 1
        THEN /\ ~bwlast.err
             /\ bit_length(bw) = bit_length(bwpre) + bwlast.n
             /\ WriterBits(bw) = WriterBits(bwpre)
                    \o IntBits(IF bwlast.x >= 0 THEN bwlast.x ELSE 2^bwlast.n + bwlast.x,
                               bwlast.n)
        ELSE /\ bwlast.err
             /\ bit_length(bw) = bit_length(bwpre)
             /\ bw = bwpre

\* write_signed(4, 3) raised on a writer that holds a flushed byte and
\* pending bits
C23_Witness ==
    /\ bwlast.op = "write_signed"
    /\ bwlast.x = 4
    /\ bwlast.n = 3
    /\ bwlast.err
    /\ Len(bwpre.buf) >= 1
    /\ bwpre.nbits > 0

\* C24: after to_bytes the mirrored read of a write_bit(b) returns b and the
\* mirrored read_bits(n) of a write_bits(x, n) returns x mod 2^n; write_bits
\* appends the low n bits of x most significant first, and nothing for n = 0.
C24_BitRoundTrip ==
    /\ (brlast.idx >= 1 /\ bwlog[brlast.idx].op = "write_bit") =>
          /\ ~brlast.err
          /\ brlast.val = bwlog[brlast.idx].x
    /\ (brlast.idx >= 1 /\ bwlog[brlast.idx].op = "write_bits") =>
          /\ ~brlast.err
          /\ brlast.val = bwlog[brlast.idx].x % 2^bwlog[brlast.idx].n
    /\ (bwlast.op = "write_bits" /\ ~bwlast.err) =>
          /\ bit_length(bw) = bit_length(bwpre) + bwlast.n
          /\ \A i \in 1..bwlast.n :
                WriterBits(bw)[bit_length(bwpre) + i]
                    = ((bwlast.x % 2^bwlast.n) \div 2^(bwlast.n - i)) % 2
          /\ bwlast.n = 0 => bw = bwpre

\* write_bit(1), write_bits(262, 9), write_bits(14, 3) were written, and the
\* third mirrored read returned 14 mod 8
C24_Witness ==
    /\ brlast.idx = 3
    /\ bwlog[1].op = "write_bit" /\ bwlog[1].x = 1
    /\ bwlog[2].op = "write_bits" /\ bwlog[2].x = 262
    /\ bwlog[3].op = "write_bits" /\ bwlog[3].x = 14
    /\ brlast.op = "read_bits"
    /\ brlast.val = 6

\* the bytes a writer holding nbits bits has flushed once it is aligned
BytesFor(nbits) == (nbits + 7) \div 8

\* C25: whatever bit-granular writes, align_to_byte calls and fixed-width
\* writes are interleaved, every read of the mirrored sequence returns
\* normally and ends where its write ended; read_u32, read_i64 and read_u64
\* return the value written.  A fixed-width write starts at the next byte
\* boundary and its bytes are big-endian.
C25_AlignmentSymmetry ==
    /\ brlast.idx >= 1 =>
          /\ ~brlast.err
          /\ 8 * brd[1].byte_pos + brd[1].bit_pos = bwlog[brlast.idx].len
    /\ (brlast.idx >= 1
          /\ bwlog[brlast.idx].op \in {"write_u32", "write_i64", "write_u64"}) =>
          brlast.val = bwlog[brlast.idx].x
    /\ bwlast.op \in {"write_u32", "write_i64", "write_u64"} =>
          /\ bw.nbits = 0
          /\ Len(bw.buf) = BytesFor(bit_length(bwpre))
                              + (IF bwlast.op = "write_u32" THEN 4 ELSE 8)
          /\ \A i \in 1..(8 * Len(bwpre.buf) + bwpre.nbits) :
                WriterBits(bw)[i] = WriterBits(bwpre)[i]
    /\ bwlast.op = "write_u32" =>
          \A k \in 1..4 :
             bw.buf[Len(bw.buf) - 4 + k] = (bwlast.x \div 256^(4 - k)) % 256
    /\ bwlast.op = "write_i64" =>
          /\ \A k \in 1..7 : bw.buf[Len(bw.buf) - 8 + k] = 255
          /\ bw.buf[Len(bw.buf)] = 256 + bwlast.x

\* three bits, write_i64(-2) and something else were written; read_i64,
\* called with the cursor at bit 3 of the first byte, returned -2
C25_Witness ==
    /\ brlast.idx = 2
    /\ Len(bwlog) = 3
    /\ bwlog[1].op = "write_bits" /\ bwlog[1].n = 3
    /\ bwlog[2].op = "write_i64"
    /\ brlast.op = "read_i64"
    /\ brpre[1].byte_pos = 0 /\ brpre[1].bit_pos = 3
    /\ brlast.val = -2

\* C26: for every width bits >= 1 and every x in
\* [-2^(bits-1), 2^(bits-1)-1], read_signed(bits) on the bytes of a writer
\* returns the x that write_signed(x, bits) wrote.
C26_SignedRoundTrip ==
    (brlast.idx >= 1 /\ bwlog[brlast.idx].op = "write_signed") =>
        /\ brlast.op = "read_signed"
        /\ ~brlast.err
        /\ brlast.val = bwlog[brlast.idx].x

\* two bits and write_signed(-16, 5) were written, and read_signed(5)
\* returned -16
C26_Witness ==
    /\ brlast.idx = 3
    /\ bwlog[3].op = "write_signed"
    /\ bwlog[3].x = -16
    /\ bwlog[3].n = 5
    /\ brlast.val = -16

\* the bits of w are the first bits of post, and post holds only zeros after
\* them
PaddedWithZeros(w, post) ==
    /\ \A i \in 1..bit_length(w) : post[i] = WriterBits(w)[i]
    /\ \A i \in (bit_length(w) + 1)..Len(post) : post[i] = 0

\* C27: align_to_byte leaves bit_length() at the next multiple of 8, the
\* bits written before where they were and zeros after them; on an aligned
\* writer it changes nothing.  to_bytes() returns ceil(bit_length() / 8)
\* bytes: the bits written, padded with zeros.
C27_AlignPadsWithZeros ==
    /\ bwlast.op = "align_to_byte" =>
          /\ bw.nbits = 0
          /\ bit_length(bw) = 8 * BytesFor(bit_length(bwpre))
          /\ PaddedWithZeros(bwpre, WriterBits(bw))
          /\ bwpre.nbits = 0 => bw = bwpre
    /\ bwlast.op = "to_bytes" =>
          /\ bwlast.ret = BytesFor(bit_length(bwpre))
          /\ (brlast.op = "none" =>
                /\ Len(brd[1].data) = BytesFor(bit_length(bwpre))
                /\ PaddedWithZeros(bwpre, BytesToBits(brd[1].data)))

\* align_to_byte was called on a writer with a flushed byte and the two
\* pending bits 01
C27_Witness ==
    /\ bwlast.op = "align_to_byte"
    /\ Len(bwpre.buf) = 1
    /\ bwpre.nbits = 2
    /\ bwpre.cur = 1
    /\ bw.buf[2] = 64

\* C28: reserve_u32() aligns, appends 4 zero bytes and returns their offset.
\* patch_u32(offset, x) puts x, big-endian, in the 4 bytes at offset and
\* leaves every other byte, the length of the buffer and the pending bits
\* as they were; it raises, changing nothing, when offset < 0 or offset + 4
\* is behind the flushed bytes.  The read that mirrors reserve_u32 returns
\* the patched value.
C28_ReserveAndPatch ==
    /\ bwlast.op = "reserve_u32" =>
          /\ ~bwlast.err
          /\ bwlast.ret = BytesFor(bit_length(bwpre))
          /\ bw.nbits = 0
          /\ Len(bw.buf) = bwlast.ret + 4
          /\ PaddedWithZeros(bwpre, WriterBits(bw))
    /\ bwlast.op = "patch_u32" =>
          IF bwlast.n < 0 \/ bwlast.n + 4 > Len(bwpre.buf)
          THEN bwlast.err /\ bw = bwpre
          ELSE /\ ~bwlast.err
               /\ Len(bw.buf) = Len(bwpre.buf)
               /\ bw.cur = bwpre.cur
               /\ bw.nbits = bwpre.nbits
               /\ \A i \in 1..Len(bw.buf) :
                     bw.buf[i] = IF bwlast.n < i /\ i <= bwlast.n + 4
                                 THEN (bwlast.x \div 256^(4 - (i - bwlast.n))) % 256
                                 ELSE bwpre.buf[i]
    /\ (brlast.idx >= 1 /\ bwlog[brlast.idx].op = "reserve_u32") =>
          /\ ~brlast.err
          /\ brlast.val = bwlog[brlast.idx].x

\* reserve_u32() returned 0, three bits were written, and
\* patch_u32(0, 66051) was called with these bits pending
C28_Witness ==
    /\ bwlast.op = "patch_u32"
    /\ ~bwlast.err
    /\ bwlast.n = 0
    /\ Len(bwlog) = 2
    /\ bwlog[1].op = "reserve_u32"
    /\ bwlog[1].x = 66051
    /\ Len(bwpre.buf) = 4
    /\ bwpre.nbits = 3
    /\ bw.buf[3] = 2

\* C29: peek_bit returns the bit the next read_bit returns and leaves byte
\* position, bit position and bits_remaining as they were; consecutive
\* peek_bit calls return the same bit.
C29_PeekDoesNotAdvance ==
    /\ brlast.op = "peek_bit" =>
          /\ brd = brpre
          /\ bits_remaining(brd[1]) = bits_remaining(brpre[1])
          /\ brlast.err = (BitsLeft(brpre[1]) = 0)
          /\ (~brlast.err /\ brlast.before # -1) => brlast.val = brlast.before
    /\ (brlast.op = "read_bit" /\ brlast.before # -1) =>
          /\ ~brlast.err
          /\ brlast.val = brlast.before
          /\ BitsLeft(brd[1]) = BitsLeft(brpre[1]) - 1

\* peek_bit returned 1 with the cursor at the first bit of three bytes, and
\* the read_bit after it, the third call, returned 1
C29_Witness ==
    /\ brlast.op = "read_bit"
    /\ brlast.before = 1
    /\ brlast.val = 1
    /\ brlast.calls = 3
    /\ brpre[1].byte_pos = 0
    /\ brpre[1].bit_pos = 0
    /\ Len(brd[1].data) = 3

\* C30: bits_remaining is 8 * len(data) minus the bits taken so far by reads
\* and by alignment: 8 * len(data) at the start, n less after a read_bits(n)
\* that returned, never negative, and 0 exactly when read_bit would raise.
C30_BitsRemainingCountsDown ==
    /\ bits_remaining(brd[1]) = 8 * Len(brd[1].data) - brlast.cons
    /\ brlast.op = "none" => bits_remaining(brd[1]) = 8 * Len(brd[1].data)
    /\ (brlast.op = "read_bits" /\ ~brlast.err) =>
          bits_remaining(brd[1]) = bits_remaining(brpre[1]) - brlast.n
    /\ bits_remaining(brd[1]) >= 0
    /\ (bits_remaining(brd[1]) = 0) = read_bit(brd[1]).err

\* read_bits(9) and read_u32 were called on 5 bytes; read_u32 skipped 7
\* bits and raised, 24 bits are left
C30_Witness ==
    /\ brlast.op = "read_u32"
    /\ brlast.err
    /\ Len(brd[1].data) = 5
    /\ brpre[1].byte_pos = 1
    /\ brpre[1].bit_pos = 1
    /\ brlast.cons = 16
    /\ bits_remaining(brd[1]) = 24

\* C31: get_compression_stats reports total_points equal to the number of
\* stored points, original_bytes = total_points * (8 + 8 * number of
\* variables), compressed_bytes equal to the byte lengths of the closed
\* blocks plus the byte length of the open block, and compression_ratio =
\* original_bytes / compressed_bytes, or 0 when compressed_bytes is 0.
C31_CompressionStats ==
    (slast.op = "stats") =>
        /\ sres[1].total_points = Len(sacc)
        /\ sres[1].original_bytes = sres[1].total_points * (8 + 8 * Len(ser.var_names))
        /\ sres[1].compressed_bytes =
               ClosedSize(spre)
               + (IF spre.open_block # <<>>
                  THEN BytesFor(bit_length(spre.open_block[1].writer)) ELSE 0)
        /\ IF sres[1].compressed_bytes = 0
           THEN sres[1].compression_ratio = [num |-> 0, den |-> 1]
           ELSE /\ sres[1].compression_ratio.den # 0
                /\ sres[1].compression_ratio.num * sres[1].compressed_bytes
                       = sres[1].original_bytes * sres[1].compression_ratio.den

\* a stats call on a series with one closed block and an open block that
\* ends inside a byte, three points in all
C31_Witness ==
    /\ slast.op = "stats"
    /\ Len(spre.closed_blocks) = 1
    /\ spre.open_block # <<>>
    /\ spre.open_block[1].writer.nbits # 0
    /\ sres[1].total_points = 3
    /\ sres[1].original_bytes = 72

\* every insert call so far returned without error
AllAccepted == Len(sacc) = Len(sfed)

\* what query(-100, 99) would return now: every timestamp offered lies inside
QueryAllNow == query(ser, -100, 99)

\* C32: queries are read-only: when the insert calls had non-decreasing
\* timestamps and none of them raised, a query over the whole range returns
\* exactly the inserted points, whatever query calls were made between the
\* insert calls.
C32_QueriesAreReadOnly ==
    (AllAccepted /\ NonDecreasing(sfed)) =>
        (~QueryAllNow.err /\ QueryAllNow.points = AcceptedIn(-100, 99))

\* the same without any earlier query call
QueriesNeverMade ==
    (AllAccepted /\ NonDecreasing(sfed) /\ slast.queries = 0) =>
        (~QueryAllNow.err /\ QueryAllNow.points = AcceptedIn(-100, 99))

\* the block b after add was called for pts[i], pts[i + 1], ... in turn
RECURSIVE AddAll(_, _, _)
AddAll(b, pts, i) ==
    IF i > Len(pts) THEN b ELSE AddAll(add(b, pts[i].ts, pts[i].values).b, pts, i + 1)

\* the bytes seal() returns for a fresh block of the open block's window to
\* which the accepted points were added with no other call in between
SealedWithoutCalls ==
    seal(AddAll(NewBlock(ser.var_names, ser.open_block[1].start_timestamp), sacc, 1)).bytes

\* C33: get_compression_stats and get_compressed_data are read-only on an
\* open block: while every accepted point is in the open block, seal() gives
\* the bytes it gives for the same add calls without any such call between.
C33_StatsAreReadOnly ==
    (AllAccepted /\ ser.closed_blocks = <<>> /\ ser.open_block # <<>>) =>
        seal(ser.open_block[1]).bytes = SealedWithoutCalls

\* the same without any get_compression_stats call
StatsNeverCalled ==
    (AllAccepted /\ ser.closed_blocks = <<>> /\ ser.open_block # <<>> /\ slast.stats = 0) =>
        seal(ser.open_block[1]).bytes = SealedWithoutCalls

\* the start_timestamp of the closed blocks in list order, then of the open block
BlockStarts(s) ==
    [i \in 1..Len(s.closed_blocks) |-> s.closed_blocks[i].start]
        \o (IF s.open_block # <<>> THEN <<s.open_block[1].start_timestamp>> ELSE <<>>)

\* C34 as stated: after insert calls with non-decreasing timestamps and
\* flush calls in between, no two blocks of the series have the same
\* start_timestamp and the starts are strictly increasing.
C34_OneBlockPerWindow ==
    NonDecreasing(sfed) =>
        \A i, j \in 1..Len(BlockStarts(ser)) :
            i < j => BlockStarts(ser)[i] < BlockStarts(ser)[j]

\* C34 amended: after insert calls with non-decreasing timestamps the starts
\* of the closed blocks and then of the open block never decrease, and they
\* are strictly increasing as long as flush was not called; a block sealed
\* by flush and the block the next insert opens may share a start.
C34_BlockStartsOrdered ==
    NonDecreasing(sfed) =>
        \A i, j \in 1..Len(BlockStarts(ser)) :
            i < j => /\ BlockStarts(ser)[i] <= BlockStarts(ser)[j]
                     /\ (slast.flushes = 0 => BlockStarts(ser)[i] < BlockStarts(ser)[j])

\* after insert(-70), flush, insert(-6) the closed block and the open block
\* both start at -100
C34_Witness ==
    /\ NonDecreasing(sfed)
    /\ slast.op = "insert" /\ ~slast.err
    /\ slast.flushes = 1
    /\ Len(ser.closed_blocks) = 1
    /\ ser.open_block # <<>>
    /\ ser.closed_blocks[1].start = ser.open_block[1].start_timestamp

\* the count of every block of the series: the closed blocks in list order,
\* then the open block
BlockCounts(s) ==
    [i \in 1..Len(s.closed_blocks) |-> s.closed_blocks[i].count]
        \o (IF s.open_block # <<>> THEN <<s.open_block[1].count>> ELSE <<>>)

RECURSIVE SumOf(_)
SumOf(f) == IF f = <<>> THEN 0 ELSE Head(f) + SumOf(Tail(f))

\* C35: after any sequence of insert, flush and query calls total_points is
\* the number of insert calls that returned without error and the sum of
\* the counts of the closed blocks and the open block, and no closed block
\* has count 0.
C35_TotalPointsCountsAcceptedInserts ==
    /\ total_points(ser) = Len(sacc)
    /\ total_points(ser) = SumOf(BlockCounts(ser))
    /\ \A i \in 1..Len(ser.closed_blocks) : ser.closed_blocks[i].count > 0

\* a flush that drops an open block left empty by a failed insert, after
\* one insert succeeded and its block was sealed by rotation
C35_Witness ==
    /\ slast.op = "flush"
    /\ spre.open_block # <<>>
    /\ spre.open_block[1].count = 0
    /\ Len(ser.closed_blocks) = 1
    /\ Len(sfed) = 2
    /\ total_points(ser) = 1

\* C36: once k values were encoded and the k values decoded from the
\* produced bytes, the decoder's prev_value_bits is the encoder's, and so
\* are prev_leading and prev_trailing when the encoder holds a window; an
\* encoder without a window answers a value that differs from the previous
\* one with a new-window code (2 + 5 + 6 bits and the window).
C36_DecoderMirrorsEncoder ==
    /\ (vphase = "read" /\ Len(vout) = Len(vfed)) =>
           /\ vdec.prev_value_bits = venc.prev_value_bits
           /\ (venc.prev_leading # 255) =>
                  /\ vdec.prev_leading = venc.prev_leading
                  /\ vdec.prev_trailing = venc.prev_trailing
    /\ (vlast.called /\ vlast.count > 0 /\ ~vlast.same /\ vlast.prev_leading = 255) =>
           /\ venc.prev_leading # 255
           /\ vlast.grew = 13 + (64 - venc.prev_leading - venc.prev_trailing)

\* 22.5, 22.6, 22.5 were encoded (a new window, then its reuse) and read
\* back: the decoder holds the encoder's window
C36_Witness ==
    /\ vphase = "read"
    /\ vfed = <<V22_5, V22_6, V22_5>>
    /\ Len(vout) = 3
    /\ venc.prev_leading # 255
    /\ vdec.prev_leading = venc.prev_leading
    /\ vdec.prev_trailing = venc.prev_trailing
    /\ vdec.prev_trailing # 0

\* the last encoder call had a previous value with another bit pattern
LastDiffers == vphase = "write" /\ vlast.called /\ vlast.count > 0 /\ ~vlast.same

\* xor, leading (clamped to 31) and trailing of the last encoder call
LastXor == Xor(vfed[Len(vfed)], vfed[Len(vfed) - 1])

LastLeading == IF LeadingZeros(LastXor) > 31 THEN 31 ELSE LeadingZeros(LastXor)

LastTrailing == TrailingZeros(LastXor)

\* the bits the last encoder call appended to the writer
LastCode == SubSeq(WriterBits(vw), bit_length(vw) - vlast.grew + 1, bit_length(vw))

\* the reuse-window code of the last call: '1', '0' and the bits of xor
\* inside the previous window
ReuseCode ==
    <<1, 0>> \o SubSeq(LastXor, vlast.prev_leading + 1, 64 - vlast.prev_trailing)

\* the new-window code of the last call: '1', '1', leading on 5 bits, the
\* width minus one on 6 bits and the bits of xor inside the window
NewWindowCode ==
    <<1, 1>> \o IntBits(LastLeading, 5) \o IntBits(64 - LastLeading - LastTrailing - 1, 6)
        \o SubSeq(LastXor, LastLeading + 1, 64 - LastTrailing)

\* C37: in verification mode the reuse code is emitted only if a previous
\* window exists, leading >= prev_leading, trailing >= prev_trailing and the
\* previous window is at most 11 bits wider than 64 - leading - trailing;
\* otherwise a new window is written and prev_leading and prev_trailing
\* become the current leading (clamped to 31) and trailing.
C37_VerificationReuseRule ==
    (vmode = "verification" /\ LastDiffers) =>
        IF /\ vlast.prev_leading # 255
           /\ LastLeading >= vlast.prev_leading
           /\ LastTrailing >= vlast.prev_trailing
           /\ (64 - vlast.prev_leading - vlast.prev_trailing)
                  - (64 - LastLeading - LastTrailing) <= 11
        THEN /\ LastCode = ReuseCode
             /\ venc.prev_leading = vlast.prev_leading
             /\ venc.prev_trailing = vlast.prev_trailing
        ELSE /\ LastCode = NewWindowCode
             /\ venc.prev_leading = LastLeading
             /\ venc.prev_trailing = LastTrailing

\* the all-ones pattern, 0.0, -0.0: the window of 64 bits is 63 bits wider
\* than the sign bit, and a new window with trailing 63 is written
C37_Witness ==
    /\ vmode = "verification"
    /\ LastDiffers
    /\ vfed = <<AllOnes, PosZero, NegZero>>
    /\ vlast.prev_leading = 0 /\ vlast.prev_trailing = 0
    /\ venc.prev_leading = 0 /\ venc.prev_trailing = 63
    /\ vlast.grew = 14

\* C38: in standard mode the reuse code is chosen exactly when a previous
\* window exists and leading (clamped to 31) >= prev_leading and trailing
\* >= prev_trailing; then every 1 bit of xor lies inside the previous window
\* and the bits written give xor back; in the new-window case the 6-bit
\* field holds meaningful_bits - 1 with 1 <= meaningful_bits <= 64.
C38_StandardReuseRule ==
    (vmode = "standard" /\ LastDiffers) =>
        IF /\ vlast.prev_leading # 255
           /\ LastLeading >= vlast.prev_leading
           /\ LastTrailing >= vlast.prev_trailing
        THEN /\ LastCode = ReuseCode
             /\ vlast.grew = 2 + (64 - vlast.prev_leading - vlast.prev_trailing)
             /\ \A i \in 1..64 :
                    LastXor[i] = 1 => (vlast.prev_leading < i /\ i <= 64 - vlast.prev_trailing)
             /\ Zeros(vlast.prev_leading) \o SubSeq(LastCode, 3, Len(LastCode))
                    \o Zeros(vlast.prev_trailing) = LastXor
        ELSE /\ LastCode = NewWindowCode
             /\ 1 <= 64 - LastLeading - LastTrailing
             /\ 64 - LastLeading - LastTrailing <= 64
             /\ BitsValue(SubSeq(LastCode, 8, 13)) = 64 - LastLeading - LastTrailing - 1

\* the all-ones pattern, 0.0, -0.0 in standard mode: the sign bit is
\* written inside the 64-bit window of the previous call
C38_Witness ==
    /\ vmode = "standard"
    /\ LastDiffers
    /\ vfed = <<AllOnes, PosZero, NegZero>>
    /\ venc.prev_leading = 0 /\ venc.prev_trailing = 0
    /\ vlast.grew = 66

\* C39: after any sequence of BitReader calls, failing calls included, the
\* bit position is between 0 and 7, the byte position is at most len(data),
\* a non-zero bit position goes with a byte position below len(data), and
\* bits_remaining is not negative.
C39_ReaderCursorInvariant ==
    /\ 0 <= brd[1].bit_pos /\ brd[1].bit_pos <= 7
    /\ brd[1].byte_pos <= Len(brd[1].data)
    /\ (brd[1].bit_pos # 0) => (brd[1].byte_pos < Len(brd[1].data))
    /\ bits_remaining(brd[1]) >= 0

\* a read_bits(9) that failed on a one-byte stream after read_bits(3): the
\* cursor was inside the byte and is left at the end of the data
C39_Witness ==
    /\ brlast.op = "read_bits" /\ brlast.err
    /\ Len(brd[1].data) = 1
    /\ brpre[1].bit_pos = 3
    /\ brd[1].byte_pos = 1 /\ brd[1].bit_pos = 0

\* the zero bits an alignment adds to the writer w
PaddingOf(w) == (8 - w.nbits) % 8

\* the bits the last writer call had to append to the writer it found:
\* its own bits and, for the byte-aligned calls, the padding before them
BitsOfLastCall ==
    CASE bwlast.op = "none" -> 0
      [] bwlast.op = "write_bit" -> 1
      [] bwlast.op \in {"write_bits", "write_signed"} -> IF bwlast.err THEN 0 ELSE bwlast.n
      [] bwlast.op \in {"align_to_byte", "to_bytes"} -> PaddingOf(bwpre)
      [] bwlast.op \in {"write_u32", "reserve_u32"} -> PaddingOf(bwpre) + 32
      [] bwlast.op \in {"write_i64", "write_u64"} -> PaddingOf(bwpre) + 64
      [] bwlast.op = "patch_u32" -> 0

\* C40: after every writer operation the accumulator holds 0 to 7 bits, its
\* value is below 2^nbits, and bit_length() = 8 * (flushed bytes) + nbits
\* has grown by the bits the operation wrote and the padding bits its
\* alignment added, so it is the total of bits written and padding.
C40_WriterAccumulatorInvariant ==
    /\ 0 <= bw.nbits /\ bw.nbits <= 7
    /\ 0 <= bw.cur /\ bw.cur < 2^bw.nbits
    /\ bit_length(bw) = 8 * Len(bw.buf) + bw.nbits
    /\ bit_length(bw) = bit_length(bwpre) + BitsOfLastCall
    /\ \A i \in 1..Len(bw.buf) : bw.buf[i] \in 0..255

\* a third write_bits(14, 3) found six pending bits: the accumulator was
\* flushed when it reached eight bits and holds the ninth
C40_Witness ==
    /\ bwlast.op = "write_bits" /\ ~bwlast.err
    /\ bwpre.nbits = 6
    /\ Len(bw.buf) = 1 /\ bw.buf[1] = 219
    /\ bw.nbits = 1 /\ bw.cur = 0

=============================================================================
